---- MODULE Spec2Model ----
(***************************************************************************)
(* State-machine model of EDHRecAnalyzer (src/edhrec_backend.py): the two  *)
(* rate limiters, the build-id cache, the per-deck file cache, the         *)
(* ThreadPoolExecutor batch of fetch_decks_with_progress and the Scryfall  *)
(* metadata cache read by get_card_type / get_card_metadata.               *)
(*                                                                         *)
(* Time is counted in units of 0.04 s, the largest unit in which both      *)
(* minimum delays (0.80 s and 0.12 s) are whole numbers.  The code uses a  *)
(* last-request timestamp only through time.time() - timestamp, compared   *)
(* with the minimum delay, so each timestamp is kept as that difference,   *)
(* capped at the minimum delay; the passing of time raises it.             *)
(***************************************************************************)
EXTENDS Integers, Sequences, FiniteSets, TLC

VARIABLES
    edhrec_elapsed,         \* time.time() - self.last_edhrec_request, capped
    scryfall_elapsed,       \* time.time() - self.last_scryfall_request, capped
    build_id,               \* self.build_id
    deck_cache,             \* the files of self.deck_cache_dir, by deck id
    deck_hashes,            \* argument of fetch_decks_with_progress
    gen_pc,                 \* position of the generator
    total,                  \* local `total` of the generator
    completed,              \* local `completed` of the generator
    yields,                 \* the triples yielded so far, in order
    yield_of,               \* history: the future each triple was taken from
    pc,                     \* position of each submitted future
    sleep_left,             \* per future: what is left of its time.sleep()
    result,                 \* per future: what future.result() gives
    outcome,                \* history: each fetch ended "hit", "fetched" or "failed"
    served,                 \* history: the deck its cache file or response held
    loaded,                 \* history: what load_deck_from_cache found
    n_grants,               \* history: rate-limiter grants per future
    n_requests,             \* history: HTTP requests per future
    edhrec_min_gap,         \* history: smallest distance between two EDHREC grants
    scryfall_cache,         \* self.scryfall_cache, by card name
    scryfall_keys,          \* the keys of self.scryfall_cache, in insertion order
    scryfall_file,          \* the text of the file at self.scryfall_cache_path
    call_pc,                \* position of the sequential caller
    call,                   \* the method it is in, and its card name
    call_sleep,             \* what is left of its time.sleep()
    call_slept,             \* history: the argument of its last time.sleep()
    ret,                    \* what its last finished call returned
    scryfall_cache0,        \* history: the cache as loaded at construction
    n_reads,                \* history: finished reads per card name and method
    n_fetches,              \* history: metadata requests per card name
    answered,               \* history: the status the request for a name got
    n_calls,                \* history: calls the sequential caller has made
    n_acquired,             \* history: grants to the sequential caller
    scryfall_min_gap,       \* history: smallest distance between two Scryfall grants
    homepage_by,            \* history: the futures that requested the homepage
    deck_table,             \* argument of filter_deck_hashes: deck_table["table"]
    recent,                 \* argument of filter_deck_hashes
    min_price,              \* argument of filter_deck_hashes
    max_price,              \* argument of filter_deck_hashes
    filter_ret,             \* what filter_deck_hashes returned or that it raised
    commander_name,         \* argument of format_commander_name
    formatted_name,         \* what format_commander_name returned
    w_pc,                   \* position of each concurrent metadata reader
    w_call,                 \* per reader: the method it is in, and its card name
    w_sleep,                \* per reader: what is left of its time.sleep()
    w_dump,                 \* per reader: the dict iterator (once created) and buffer of its json.dump
    tok_pc,                 \* position of the caller of fetch_edhrec_build_id
    tok_sleep,              \* what is left of its time.sleep()
    tok_ret,                \* what its last finished call returned
    tok_response,           \* history: the last answer of the homepage
    tok_calls,              \* history: calls of fetch_edhrec_build_id made
    tok_requests,           \* history: homepage requests it issued
    tok_grants,             \* history: its acquisitions of the EDHREC limiter
    n_acquired_edhrec,      \* history: EDHREC grants to the sequential caller
    n_table_requests        \* history: deck index requests it issued

batch_vars == <<edhrec_elapsed, build_id, deck_cache, deck_hashes, gen_pc,
                total, completed, yields, yield_of, pc, sleep_left, result,
                outcome, served, loaded, n_grants, n_requests, edhrec_min_gap,
                homepage_by>>

card_vars == <<scryfall_elapsed, scryfall_cache, scryfall_keys, scryfall_file, call_pc, call,
               call_sleep, call_slept, ret, scryfall_cache0, n_reads, n_fetches, answered,
               n_calls, n_acquired, scryfall_min_gap, n_acquired_edhrec,
               n_table_requests>>

pure_vars == <<deck_table, recent, min_price, max_price, filter_ret,
               commander_name, formatted_name>>

worker_vars == <<w_pc, w_call, w_sleep, w_dump>>

token_vars == <<tok_pc, tok_sleep, tok_ret, tok_response, tok_calls,
                tok_requests, tok_grants>>

vars == <<batch_vars, card_vars, pure_vars, worker_vars, token_vars>>

----------------------------------------------------------------------------
(* Bounds of the model *)

\* longest deck_hashes of a batch with cold caches (Spec)
MaxDecks == 2
\* longest deck_hashes of a batch on a warm cache (SpecPool): more than the pool
MaxPoolDecks == 6
\* calls the sequential caller makes (SpecSeq, SpecLimiter)
MaxCalls == 4
\* how far time advances in one step of a batch
EdhrecTick == 20
\* how far time advances in one step of the sequential caller
ScryfallTick == 1
\* longest catalog handed to filter_deck_hashes (SpecFilter)
MaxEntries == 3
\* longest commander name (SpecFormat)
MaxNameLen == 3
\* threads reading the metadata cache at the same time (SpecReaders)
MaxReaders == 2
\* longest text between the two markers of a generated homepage
MaxIdLen == 6
\* longest batch run beside the sequential caller (SpecRequests)
MaxRequestDecks == 1
\* longest batch whose termination is checked (FairSpec)
MaxFairDecks == 2

(* Program constants, in units of 0.04 s *)

SCRYFALL_MIN_DELAY == 3
EDHREC_MIN_DELAY == 20
MAX_WORKERS == 5

DeckIds == {"d1", "d2"}

----------------------------------------------------------------------------
(* Python values *)

None == [tag |-> "None", v |-> <<>>]
PyList(l) == [tag |-> "list", v |-> l]
PyStr(s) == [tag |-> "str", v |-> s]

\* Python truthiness of None, a list and a str
Truthy(x) == x.tag # "None" /\ x.v # <<>>

Min(a, b) == IF a < b THEN a ELSE b

\* s[a:b] of Python for 0 <= a, with a negative b counted from the end
Slice(s, a, b) ==
    LET n == Len(s)
        e == IF b < 0 THEN (IF n + b < 0 THEN 0 ELSE n + b) ELSE Min(b, n)
    IN  IF a >= e THEN <<>> ELSE SubSeq(s, a + 1, e)

\* s.find(sub, start) of Python: 0-based index of the first match, or -1
Find(s, sub, start) ==
    LET hits == {i \in start..(Len(s) - Len(sub)) :
                    SubSeq(s, i + 1, i + Len(sub)) = sub}
    IN  IF hits = {} THEN -1 ELSE CHOOSE i \in hits : \A j \in hits : i <= j

\* s.rfind(sub) of Python: 0-based index of the last match, or -1
RFind(s, sub) ==
    LET hits == {i \in 0..(Len(s) - Len(sub)) :
                    SubSeq(s, i + 1, i + Len(sub)) = sub}
    IN  IF hits = {} THEN -1 ELSE CHOOSE i \in hits : \A j \in hits : i >= j

----------------------------------------------------------------------------
(* Rate limiting: rate_limit_scryfall / rate_limit_edhrec *)

\* time.sleep(elapsed): the time already waited instead of the time left
SleepTime_elapsed(elapsed, min_delay) ==
    IF elapsed < min_delay THEN elapsed ELSE 0

\* lines 50-51, 56-57: the argument of time.sleep(), 0 when it is not called
SleepTime(elapsed, min_delay) ==
    IF elapsed < min_delay THEN min_delay - elapsed ELSE 0

----------------------------------------------------------------------------
(* Build id: the pure part of fetch_edhrec_build_id *)

marker == <<"_", "b", "u", "i", "l", "d", "M", "a", "n", "i", "f", "e", "s",
            "t", ".", "j", "s">>
static_marker == <<"/", "_", "n", "e", "x", "t", "/", "s", "t", "a", "t", "i",
                   "c", "/">>

\* an extracted id of any length taken as the token
ExtractBuildId_any_length(r) ==
    LET html == r.text
        idx == Find(html, marker, 0)
        prefix == Slice(html, 0, idx)
        static_idx == RFind(prefix, static_marker)
        start == static_idx + Len(static_marker)
        bid == Slice(prefix, start, Find(prefix, <<"/">>, start))
    IN  IF r.status_code # 200 \/ idx = -1 \/ static_idx = -1 \/ bid = <<>>
        THEN [raised |-> TRUE, build_id |-> None]
        ELSE [raised |-> FALSE, build_id |-> PyStr(bid)]

\* lines 87-113: [raised, build_id] for a homepage response
ExtractBuildId(r) ==
    IF r.status_code # 200 THEN [raised |-> TRUE, build_id |-> None]
    ELSE
    LET html == r.text
        idx == Find(html, marker, 0)
    IN  IF idx = -1 THEN [raised |-> TRUE, build_id |-> None]
        ELSE
        LET prefix == Slice(html, 0, idx)
            static_idx == RFind(prefix, static_marker)
        IN  IF static_idx = -1 THEN [raised |-> TRUE, build_id |-> None]
            ELSE
            LET start == static_idx + Len(static_marker)
                end == Find(prefix, <<"/">>, start)
                bid == Slice(prefix, start, end)
            IN  IF bid = <<>> \/ Len(bid) < 5
                THEN [raised |-> TRUE, build_id |-> None]
                ELSE [raised |-> FALSE, build_id |-> PyStr(bid)]

HomepageGood == static_marker \o <<"b", "u", "i", "l", "d", "1", "/">> \o marker
HomepageBare == <<"<", "h", "t", "m", "l", ">">>

HomepageResponses ==
    { [status_code |-> 200, text |-> HomepageGood],
      [status_code |-> 200, text |-> HomepageBare],
      [status_code |-> 503, text |-> <<>>] }

----------------------------------------------------------------------------
(* Deck cache: load_deck_from_cache / save_deck_to_cache *)

Missing == [tag |-> "missing", v |-> <<>>]

\* a file of n bytes that json.load rejects: v holds one mark per byte
Unparsable(n) == [tag |-> "corrupt", v |-> [k \in 1..n |-> "?"]]

\* the empty file, which is what open(path, "w") leaves
Corrupt == Unparsable(0)

\* what a deck cache file can hold before the batch starts: no file, an
\* empty file, null, [] or a deck
InitCacheFiles ==
    {Missing, Corrupt, None, PyList(<<>>), PyList(<<"1 Forest">>)}

\* the cache directories the batch is started on
InitDeckCaches == [DeckIds -> InitCacheFiles]

\* lines 174-182: a file holding null parses to None, which is also what a
\* missing file and a file that json.load rejects give
load_deck_from_cache(deck_id) ==
    IF deck_cache[deck_id].tag \in {"missing", "corrupt"} THEN None
    ELSE deck_cache[deck_id]

\* the file exists and json.load succeeds on it
Parsable(deck_id) == deck_cache[deck_id].tag \in {"list", "None"}

RECURSIVE SumLen(_)
SumLen(l) == IF l = <<>> THEN 0 ELSE Len(Head(l)) + 4 + SumLen(Tail(l))

\* line 187: the number of bytes json.dump(deck, f, indent=2) writes for
\* None (null), for the empty list ([]) and for a list of lines
JsonLen(deck) ==
    IF deck.tag = "None" THEN 4
    ELSE IF deck.v = <<>> THEN 2
    ELSE 4 + SumLen(deck.v) + 2 * (Len(deck.v) - 1)

\* the size of a cache file
FileSize(file) ==
    IF file.tag \in {"list", "None"} THEN JsonLen(file) ELSE Len(file.v)

\* lines 186-187, leaving the with block: the buffered text is written at
\* offset 0 of the file as it is then; bytes beyond it stay
Flushed(file, deck) ==
    IF JsonLen(deck) >= FileSize(file) THEN deck
    ELSE Unparsable(FileSize(file))

\* deck detail responses: r.status_code and r.json(); deck is what the body
\* holds under pageProps.data.deck, which may be null
DeckResponses ==
    { [status_code |-> 404, shape |-> "invalid", deck |-> None],
      [status_code |-> 200, shape |-> "invalid", deck |-> None],
      [status_code |-> 200, shape |-> "no_path", deck |-> None],
      [status_code |-> 200, shape |-> "deck", deck |-> None],
      [status_code |-> 200, shape |-> "deck", deck |-> PyList(<<>>)],
      [status_code |-> 200, shape |-> "deck", deck |-> PyList(<<"1 Sol Ring">>)] }

----------------------------------------------------------------------------
(* Scryfall metadata cache: get_card_type / get_card_metadata *)

CardNames == {"Sol Ring", "Delver of Secrets"}
ReadOps == {"get_card_type", "get_card_metadata"}

\* None where a str may stand, and a key that a JSON object does not have
NoneStr == "<None>"
NoKey == "<no key>"

\* d.get(key) and d.get(key, default) on a JSON object field
Get(field) == IF field = NoKey THEN NoneStr ELSE field
GetOr(field, default) == IF field = NoKey THEN default ELSE field

\* a cache entry: no entry, a bare type-line str, or a metadata dict
Absent == [shape |-> "absent", type_line |-> NoneStr, image_url |-> NoneStr,
           scryfall_uri |-> NoneStr]
Legacy(t) == [shape |-> "str", type_line |-> t, image_url |-> NoneStr,
              scryfall_uri |-> NoneStr]
Meta(t, img, uri) == [shape |-> "dict", type_line |-> t, image_url |-> img,
                      scryfall_uri |-> uri]

\* the card objects api.scryfall.com answers with
NoImages == [present |-> FALSE, normal |-> NoKey]
Images(n) == [present |-> TRUE, normal |-> n]
Card(t, imgs, faces, uri) ==
    [type_line |-> t, image_uris |-> imgs, card_faces |-> faces,
     scryfall_uri |-> uri]

ScryfallResponses ==
    { [status_code |-> 404, card |-> Card(NoKey, NoImages, <<>>, NoKey)],
      [status_code |-> 200, card |-> Card(NoKey, NoImages, <<>>, NoKey)],
      [status_code |-> 200,
       card |-> Card("Artifact", Images("sol.jpg"), <<>>, "scryfall/sol")],
      [status_code |-> 200,
       card |-> Card("Creature", NoImages,
                     <<[image_uris |-> Images("front.jpg")],
                       [image_uris |-> Images("back.jpg")]>>,
                     "scryfall/delver")],
      [status_code |-> 200,
       card |-> Card("Creature", Images(""),
                     <<[image_uris |-> Images("front.jpg")],
                       [image_uris |-> Images("back.jpg")]>>,
                     "scryfall/delver")] }

\* lines 298-311: the dict _fetch_scryfall_metadata builds from a response
fetch_scryfall_metadata(r) ==
    IF r.status_code # 200 THEN Meta("Unknown", NoneStr, NoneStr)
    ELSE Meta(GetOr(r.card.type_line, "Unknown"),
              IF r.card.image_uris.present
              THEN Get(r.card.image_uris.normal) ELSE NoneStr,
              Get(r.card.scryfall_uri))

\* lines 348-366: the dict get_card_metadata builds from a response; line 361
\* falls back to the first face when the single image is None or ""
metadata_of_response(r) ==
    IF r.status_code # 200 THEN Meta("Unknown", NoneStr, NoneStr)
    ELSE
    LET card == r.card
        single == IF card.image_uris.present
                  THEN Get(card.image_uris.normal) ELSE NoneStr
        image_url ==
            IF single \in {NoneStr, ""} /\ card.card_faces # <<>>
            THEN (IF card.card_faces[1].image_uris.present
                  THEN Get(card.card_faces[1].image_uris.normal)
                  ELSE single)
            ELSE single
    IN  Meta(GetOr(card.type_line, "Unknown"), image_url,
             Get(card.scryfall_uri))

\* lines 275-279: get_card_type goes upstream unless the entry is a dict
get_card_type_fetches(cached) == cached.shape # "dict"

\* an entry without an image looked up again
get_card_metadata_fetches_imageless(cached) ==
    cached.shape = "absent" \/ cached.image_url = NoneStr

\* line 329: get_card_metadata goes upstream only when the name is not a key
get_card_metadata_fetches(cached) == cached.shape = "absent"

\* what a read returns for an entry it does not fetch (lines 276, 331-342)
TypeLineOf(entry) == [kind |-> "str", type_line |-> entry.type_line,
                      image_url |-> NoneStr, scryfall_uri |-> NoneStr]
DictOf(entry) == [kind |-> "dict", type_line |-> entry.type_line,
                  image_url |-> entry.image_url,
                  scryfall_uri |-> entry.scryfall_uri]
Returns(op, entry) ==
    IF op = "get_card_type" THEN TypeLineOf(entry) ELSE DictOf(entry)

\* the assignment left out
StoreMeta_skip(cache, card_name, meta) == cache

\* "Unknown" records kept out of the cache
StoreMeta_skip_unknown(cache, card_name, meta) ==
    IF meta.type_line = "Unknown" THEN cache
    ELSE [cache EXCEPT ![card_name] = meta]

\* lines 282, 288, 369: self.scryfall_cache[card_name] = meta
StoreMeta(cache, card_name, meta) == [cache EXCEPT ![card_name] = meta]

----------------------------------------------------------------------------
(* The text json.dump(self.scryfall_cache, f, indent=2) writes, line 267 *)

\* the characters of the strings that names and records are made of
Chars(s) ==
    CASE s = "Sol Ring" -> <<"S", "o", "l", " ", "R", "i", "n", "g">>
      [] s = "Delver of Secrets" -> <<"D", "e", "l", "v", "e", "r", " ", "o", "f", " ", "S", "e", "c", "r", "e", "t", "s">>
      [] s = "Artifact" -> <<"A", "r", "t", "i", "f", "a", "c", "t">>
      [] s = "Creature" -> <<"C", "r", "e", "a", "t", "u", "r", "e">>
      [] s = "Unknown" -> <<"U", "n", "k", "n", "o", "w", "n">>
      [] s = "sol.jpg" -> <<"s", "o", "l", ".", "j", "p", "g">>
      [] s = "front.jpg" -> <<"f", "r", "o", "n", "t", ".", "j", "p", "g">>
      [] s = "scryfall/sol" -> <<"s", "c", "r", "y", "f", "a", "l", "l", "/", "s", "o", "l">>
      [] s = "scryfall/delver" -> <<"s", "c", "r", "y", "f", "a", "l", "l", "/", "d", "e", "l", "v", "e", "r">>
      [] s = "type_line" -> <<"t", "y", "p", "e", "_", "l", "i", "n", "e">>
      [] s = "image_url" -> <<"i", "m", "a", "g", "e", "_", "u", "r", "l">>
      [] s = "scryfall_uri" -> <<"s", "c", "r", "y", "f", "a", "l", "l", "_", "u", "r", "i">>
      [] s = "null" -> <<"n", "u", "l", "l">>
      [] OTHER -> <<>>

\* the JSON text of a str, and of a str or None
Quote(s) == <<"\"">> \o Chars(s) \o <<"\"">>
JsonStr(s) == IF s = NoneStr THEN Chars("null") ELSE Quote(s)

Indent(n) == [k \in 1..n |-> " "]

\* a metadata dict, one level inside the document
JsonMeta(e) ==
    <<"{", "\n">> \o Indent(4) \o Quote("type_line") \o <<":", " ">>
        \o JsonStr(e.type_line)
    \o <<",", "\n">> \o Indent(4) \o Quote("image_url") \o <<":", " ">>
        \o JsonStr(e.image_url)
    \o <<",", "\n">> \o Indent(4) \o Quote("scryfall_uri") \o <<":", " ">>
        \o JsonStr(e.scryfall_uri)
    \o <<"\n">> \o Indent(2) \o <<"}">>

\* what the encoder yields before the first item and after the last
JsonOpen == <<"{", "\n">> \o Indent(2)
JsonClose == <<"\n", "}">>

\* what the encoder yields for one item of the dict
JsonItem(first, key, e) ==
    (IF first THEN <<>> ELSE <<",", "\n">> \o Indent(2))
    \o Quote(key) \o <<":", " ">>
    \o (IF e.shape = "str" THEN Quote(e.type_line) ELSE JsonMeta(e))

RECURSIVE JsonItems(_, _, _)
JsonItems(keys, cache, k) ==
    IF k > Len(keys) THEN <<>>
    ELSE JsonItem(k = 1, keys[k], cache[keys[k]]) \o JsonItems(keys, cache, k + 1)

\* the whole document, when nothing else touches the dict meanwhile
JsonText(keys, cache) ==
    IF keys = <<>> THEN <<"{", "}">>
    ELSE JsonOpen \o JsonItems(keys, cache, 1) \o JsonClose

\* leaving the with block of line 266: the buffered text is written at
\* offset 0 of the file as it is then; what lies beyond it stays
Written(file, text) == text \o SubSeq(file, Len(text) + 1, Len(file))

\* lines 282, 288, 369: a new key goes last, a key already there keeps its place
KeysAfter(keys, card_name) ==
    IF \E k \in 1..Len(keys) : keys[k] = card_name THEN keys
    ELSE Append(keys, card_name)

\* the orders in which a loaded cache can hold its keys
KeyOrders(cache) ==
    LET present == {c \in CardNames : cache[c].shape # "absent"}
    IN  {o \in [1..Cardinality(present) -> present] :
            \A a, b \in DOMAIN o : a # b => o[a] # o[b]}

NoCall == [op |-> "none", card_name |-> "none"]
NoReturn == [op |-> "none", card_name |-> "none", fetched |-> FALSE,
             value |-> TypeLineOf(Absent)]

request_frame == <<build_id, deck_cache, deck_hashes, gen_pc, total, completed,
                   yields, yield_of, pc, sleep_left, result, outcome, served,
                   loaded, n_grants, n_requests, scryfall_cache0, homepage_by,
                   pure_vars, worker_vars, token_vars>>

card_frame == <<request_frame, scryfall_keys>>

\* a read that the cache answers: return at once (lines 275-276, 329-342)
ReturnCached(op, card_name) ==
    /\ ret' = [op |-> op, card_name |-> card_name, fetched |-> FALSE,
               value |-> Returns(op, scryfall_cache[card_name])]
    /\ n_reads' = [n_reads EXCEPT ![card_name][op] = @ + 1]
    /\ UNCHANGED <<call_pc, call>>

\* a read that goes upstream: enter rate_limit_scryfall (lines 293, 344)
EnterFetch(op, card_name) ==
    /\ call_pc' = "rl_read"
    /\ call' = [op |-> op, card_name |-> card_name]
    /\ UNCHANGED <<ret, n_reads>>

\* lines 269-279
get_card_type(card_name) ==
    /\ call_pc = "idle"
    /\ n_calls < MaxCalls
    /\ n_calls' = n_calls + 1
    /\ IF get_card_type_fetches(scryfall_cache[card_name])
       THEN EnterFetch("get_card_type", card_name)
       ELSE ReturnCached("get_card_type", card_name)
    /\ UNCHANGED <<card_frame, edhrec_elapsed, scryfall_elapsed,
                   scryfall_cache, scryfall_file, call_sleep, call_slept,
                   n_fetches, answered, n_acquired,
                   n_acquired_edhrec, n_table_requests, edhrec_min_gap,
                   scryfall_min_gap>>

\* lines 329-342
get_card_metadata(card_name) ==
    /\ call_pc = "idle"
    /\ n_calls < MaxCalls
    /\ n_calls' = n_calls + 1
    /\ IF get_card_metadata_fetches(scryfall_cache[card_name])
       THEN EnterFetch("get_card_metadata", card_name)
       ELSE ReturnCached("get_card_metadata", card_name)
    /\ UNCHANGED <<card_frame, edhrec_elapsed, scryfall_elapsed,
                   scryfall_cache, scryfall_file, call_sleep, call_slept,
                   n_fetches, answered, n_acquired,
                   n_acquired_edhrec, n_table_requests, edhrec_min_gap,
                   scryfall_min_gap>>

\* the caller calls rate_limit_scryfall() or rate_limit_edhrec() itself
rate_limit_call(op) ==
    /\ call_pc = "idle"
    /\ n_calls < MaxCalls
    /\ n_calls' = n_calls + 1
    /\ call_pc' = "rl_read"
    /\ call' = [op |-> op, card_name |-> "none"]
    /\ UNCHANGED <<card_frame, edhrec_elapsed, scryfall_elapsed,
                   scryfall_cache, scryfall_file, call_sleep, call_slept,
                   ret, n_reads, n_fetches, answered, n_acquired,
                   n_acquired_edhrec, n_table_requests,
                   edhrec_min_gap, scryfall_min_gap>>

OnEdhrec == call.op \in {"rate_limit_edhrec", "fetch_deck_table"}

\* lines 49-51 and 55-57: read the clock and the timestamp, sleep if needed
rate_limit_read ==
    /\ call_pc = "rl_read"
    /\ LET elapsed == IF OnEdhrec THEN edhrec_elapsed ELSE scryfall_elapsed
           min_delay == IF OnEdhrec THEN EDHREC_MIN_DELAY
                        ELSE SCRYFALL_MIN_DELAY
       IN  /\ call_sleep' = SleepTime(elapsed, min_delay)
           /\ call_slept' = SleepTime(elapsed, min_delay)
    /\ call_pc' = "rl_wait"
    /\ UNCHANGED <<card_frame, edhrec_elapsed, scryfall_elapsed,
                   scryfall_cache, scryfall_file, call, ret, n_reads,
                   n_fetches, answered, n_calls, n_acquired,
                   n_acquired_edhrec, n_table_requests, edhrec_min_gap,
                   scryfall_min_gap>>

\* lines 52 and 58, once the sleep (if any) is over
rate_limit_update ==
    /\ call_pc = "rl_wait"
    /\ call_sleep = 0
    /\ IF OnEdhrec
       THEN /\ edhrec_elapsed' = 0
            /\ edhrec_min_gap' = Min(edhrec_min_gap, edhrec_elapsed)
            /\ UNCHANGED <<scryfall_elapsed, scryfall_min_gap>>
       ELSE /\ scryfall_elapsed' = 0
            /\ scryfall_min_gap' = Min(scryfall_min_gap, scryfall_elapsed)
            /\ UNCHANGED <<edhrec_elapsed, edhrec_min_gap>>
    /\ n_acquired' = n_acquired + 1
    /\ n_acquired_edhrec' = IF OnEdhrec THEN n_acquired_edhrec + 1
                            ELSE n_acquired_edhrec
    /\ call_pc' = IF call.op \in ReadOps THEN "request"
                  ELSE IF call.op = "fetch_deck_table" THEN "table_request"
                  ELSE "idle"
    /\ UNCHANGED n_table_requests
    /\ UNCHANGED <<card_frame, scryfall_cache, scryfall_file, call,
                   call_sleep, call_slept, ret, n_reads, n_fetches, answered,
                   n_calls>>

\* lines 295-311 with 282-284 / 288-290, and lines 345-371: the request,
\* the dict made of the response, the store, the save and the return
scryfall_request ==
    /\ call_pc = "request"
    /\ \E r \in ScryfallResponses :
          LET meta == IF call.op = "get_card_type"
                      THEN fetch_scryfall_metadata(r)
                      ELSE metadata_of_response(r)
              cache == StoreMeta(scryfall_cache, call.card_name, meta)
              keys == KeysAfter(scryfall_keys, call.card_name)
          IN  /\ scryfall_cache' = cache
              /\ scryfall_keys' = keys
              /\ scryfall_file' = JsonText(keys, cache)
              /\ ret' = [op |-> call.op, card_name |-> call.card_name,
                         fetched |-> TRUE, value |-> Returns(call.op, meta)]
              /\ answered' = [answered EXCEPT ![call.card_name] = r.status_code]
    /\ n_fetches' = [n_fetches EXCEPT ![call.card_name] = @ + 1]
    /\ n_reads' = [n_reads EXCEPT ![call.card_name][call.op] = @ + 1]
    /\ call_pc' = "idle"
    /\ UNCHANGED <<request_frame, edhrec_elapsed, scryfall_elapsed, call,
                   call_sleep, call_slept, n_calls, n_acquired,
                   n_acquired_edhrec, n_table_requests,
                   edhrec_min_gap, scryfall_min_gap>>

\* deck index responses: r.status_code; the body is handed on as it is
TableResponses == { [status_code |-> 200], [status_code |-> 404] }

\* lines 138-141: the caller enters fetch_deck_table, rate_limit_edhrec first
fetch_deck_table ==
    /\ call_pc = "idle"
    /\ n_calls < MaxCalls
    /\ n_calls' = n_calls + 1
    /\ call_pc' = "rl_read"
    /\ call' = [op |-> "fetch_deck_table", card_name |-> "none"]
    /\ UNCHANGED <<card_frame, edhrec_elapsed, scryfall_elapsed,
                   scryfall_cache, scryfall_file, call_sleep, call_slept,
                   ret, n_reads, n_fetches, answered, n_acquired,
                   n_acquired_edhrec, n_table_requests, edhrec_min_gap,
                   scryfall_min_gap>>

\* lines 142-147: the deck index request; raise unless the status is 200
fetch_deck_table_request ==
    /\ call_pc = "table_request"
    /\ \E r \in TableResponses :
          ret' = [op |-> call.op, card_name |-> call.card_name,
                  fetched |-> TRUE,
                  value |-> [kind |-> IF r.status_code # 200 THEN "raised"
                                      ELSE "table"]]
    /\ n_table_requests' = n_table_requests + 1
    /\ call_pc' = "idle"
    /\ UNCHANGED <<card_frame, edhrec_elapsed, scryfall_elapsed,
                   scryfall_cache, scryfall_file, call, call_sleep,
                   call_slept, n_reads, n_fetches, answered, n_calls,
                   n_acquired, n_acquired_edhrec, edhrec_min_gap,
                   scryfall_min_gap>>

----------------------------------------------------------------------------
(* The batch: fetch_decks_with_progress *)

Futures == 1..Len(deck_hashes)

Returned(x) == [kind |-> "returned", value |-> x]
Raised == [kind |-> "raised", value |-> None]
Pending == [kind |-> "pending", value |-> None]

\* a pool as large as the batch, whatever its size
max_workers_unbounded == Len(deck_hashes)

\* a pool that starts no thread
max_workers_none == Min(0, Len(deck_hashes))

\* line 233
max_workers == Min(MAX_WORKERS, Len(deck_hashes))

Running(i) == pc[i] \notin {"queued", "done"}
in_flight == Cardinality({i \in Futures : Running(i)})

Triple(c, t, d) == [completed |-> c, total |-> t, deck |-> d]

AllSeqs(S, n) == UNION {[1..k -> S] : k \in 0..n}

\* the batch handed to the pool whatever its length
no_deck_hashes_unchecked(hashes) == FALSE

\* line 230: not deck_hashes
no_deck_hashes(hashes) == ~Truthy(PyList(hashes))

\* lines 227-239: first next() on the generator
fetch_decks_with_progress_start ==
    /\ gen_pc = "created"
    /\ total' = Len(deck_hashes)
    /\ completed' = 0
    /\ gen_pc' = IF no_deck_hashes(deck_hashes) THEN "exhausted" ELSE "running"
    /\ UNCHANGED <<card_vars, pure_vars, worker_vars, token_vars, homepage_by,
                   edhrec_elapsed, build_id,
                   deck_cache, deck_hashes, yields, yield_of, pc, sleep_left,
                   result, outcome, served, loaded, n_grants, n_requests,
                   edhrec_min_gap>>

\* a pool thread takes the oldest queued work item
executor_run(i) ==
    /\ gen_pc = "running"
    /\ pc[i] = "queued"
    /\ \A j \in Futures : j < i => pc[j] # "queued"
    /\ in_flight < max_workers
    /\ pc' = [pc EXCEPT ![i] = "load"]
    /\ UNCHANGED <<card_vars, pure_vars, worker_vars, token_vars, homepage_by,
                   edhrec_elapsed, build_id,
                   deck_cache, deck_hashes, gen_pc, total, completed, yields,
                   yield_of, sleep_left, result, outcome, served, loaded, n_grants,
                   n_requests, edhrec_min_gap>>

\* lines 194-199, and line 82 when fetch_edhrec_build_id is entered
fetch_deck_by_hash_load(i) ==
    /\ pc[i] = "load"
    /\ LET deck_id == deck_hashes[i]
           cached == load_deck_from_cache(deck_id)
       IN  /\ loaded' = [loaded EXCEPT ![i] =
                            [parsed |-> Parsable(deck_id), value |-> cached]]
           /\ IF Truthy(cached)
              THEN /\ result' = [result EXCEPT ![i] = Returned(cached)]
                   /\ outcome' = [outcome EXCEPT ![i] = "hit"]
                   /\ served' = [served EXCEPT ![i] = cached]
                   /\ pc' = [pc EXCEPT ![i] = "done"]
              ELSE /\ pc' = [pc EXCEPT ![i] =
                                IF Truthy(build_id) THEN "rl" ELSE "bid_rl"]
                   /\ UNCHANGED <<result, outcome, served>>
    /\ UNCHANGED <<card_vars, pure_vars, worker_vars, token_vars, homepage_by,
                   edhrec_elapsed, build_id,
                   deck_cache, deck_hashes, gen_pc, total, completed, yields,
                   yield_of, sleep_left, n_grants, n_requests,
                   edhrec_min_gap>>

\* lines 55-57: read the clock and the timestamp, start sleeping if needed
rate_limit_edhrec_read(i) ==
    /\ pc[i] \in {"bid_rl", "rl"}
    /\ LET elapsed == edhrec_elapsed
       IN  sleep_left' = [sleep_left EXCEPT ![i] =
                             SleepTime(elapsed, EDHREC_MIN_DELAY)]
    /\ pc' = [pc EXCEPT ![i] = IF pc[i] = "bid_rl" THEN "bid_grant" ELSE "grant"]
    /\ UNCHANGED <<card_vars, pure_vars, worker_vars, token_vars, homepage_by,
                   edhrec_elapsed, build_id,
                   deck_cache, deck_hashes, gen_pc, total, completed, yields,
                   yield_of, result, outcome, served, loaded, n_grants,
                   n_requests, edhrec_min_gap>>

\* line 58, once the sleep (if any) is over
rate_limit_edhrec_update(i) ==
    /\ pc[i] \in {"bid_grant", "grant"}
    /\ sleep_left[i] = 0
    /\ edhrec_elapsed' = 0
    /\ n_grants' = [n_grants EXCEPT ![i] = @ + 1]
    /\ edhrec_min_gap' = Min(edhrec_min_gap, edhrec_elapsed)
    /\ pc' = [pc EXCEPT ![i] = IF pc[i] = "bid_grant" THEN "bid_req" ELSE "req"]
    /\ UNCHANGED <<card_vars, pure_vars, worker_vars, token_vars, homepage_by,
                   build_id, deck_cache, deck_hashes,
                   gen_pc, total, completed, yields, yield_of, sleep_left,
                   result, outcome, served, loaded, n_requests>>

\* the deck request sent on the grant of the homepage request
after_build_id_no_limiter == "req"

\* line 201: back from fetch_edhrec_build_id, rate_limit_edhrec() comes next
after_build_id == "rl"

\* lines 86-113: the homepage request and what is made of the response
fetch_edhrec_build_id_request(i) ==
    /\ pc[i] = "bid_req"
    /\ \E r \in HomepageResponses :
          LET x == ExtractBuildId(r)
          IN  IF x.raised
              THEN /\ result' = [result EXCEPT ![i] = Raised]
                   /\ outcome' = [outcome EXCEPT ![i] = "failed"]
                   /\ pc' = [pc EXCEPT ![i] = "done"]
                   /\ UNCHANGED build_id
              ELSE /\ build_id' = x.build_id
                   /\ pc' = [pc EXCEPT ![i] = after_build_id]
                   /\ UNCHANGED <<result, outcome>>
    /\ n_requests' = [n_requests EXCEPT ![i] = @ + 1]
    /\ homepage_by' = homepage_by \cup {i}
    /\ UNCHANGED <<card_vars, pure_vars, worker_vars, token_vars, edhrec_elapsed,
                   deck_cache, deck_hashes, gen_pc, total, completed, yields,
                   yield_of, sleep_left, served, loaded, n_grants,
                   edhrec_min_gap>>

\* lines 202-213: the deck request and what is made of the response
fetch_deck_by_hash_request(i) ==
    /\ pc[i] = "req"
    /\ \E r \in DeckResponses :
          IF r.status_code # 200
          THEN /\ result' = [result EXCEPT ![i] = Returned(None)]
               /\ outcome' = [outcome EXCEPT ![i] = "failed"]
               /\ pc' = [pc EXCEPT ![i] = "done"]
               /\ UNCHANGED served
          ELSE IF r.shape = "invalid"
          THEN /\ result' = [result EXCEPT ![i] = Raised]
               /\ outcome' = [outcome EXCEPT ![i] = "failed"]
               /\ pc' = [pc EXCEPT ![i] = "done"]
               /\ UNCHANGED served
          ELSE IF r.shape = "no_path"
          THEN /\ result' = [result EXCEPT ![i] = Returned(None)]
               /\ outcome' = [outcome EXCEPT ![i] = "failed"]
               /\ pc' = [pc EXCEPT ![i] = "done"]
               /\ UNCHANGED served
          ELSE /\ served' = [served EXCEPT ![i] = r.deck]
               /\ pc' = [pc EXCEPT ![i] = "save"]
               /\ UNCHANGED <<result, outcome>>
    /\ n_requests' = [n_requests EXCEPT ![i] = @ + 1]
    /\ UNCHANGED <<card_vars, pure_vars, worker_vars, token_vars, homepage_by,
                   edhrec_elapsed, build_id, deck_cache,
                   deck_hashes, gen_pc, total, completed, yields, yield_of,
                   sleep_left, loaded, n_grants, edhrec_min_gap>>

\* lines 215, 185-186: open(path, "w") creates or empties the file
save_deck_to_cache_open(i) ==
    /\ pc[i] = "save"
    /\ deck_cache' = [deck_cache EXCEPT ![deck_hashes[i]] = Corrupt]
    /\ pc' = [pc EXCEPT ![i] = "dump"]
    /\ UNCHANGED <<card_vars, pure_vars, worker_vars, token_vars, homepage_by,
                   edhrec_elapsed, build_id,
                   deck_hashes, gen_pc, total, completed, yields, yield_of,
                   sleep_left, result, outcome, served, loaded, n_grants,
                   n_requests, edhrec_min_gap>>

\* lines 187, 216: json.dump fills the buffer, the with block flushes and
\* closes the file, and the deck is returned
save_deck_to_cache_close(i) ==
    /\ pc[i] = "dump"
    /\ deck_cache' = [deck_cache EXCEPT ![deck_hashes[i]] =
                         Flushed(deck_cache[deck_hashes[i]], served[i])]
    /\ result' = [result EXCEPT ![i] = Returned(served[i])]
    /\ outcome' = [outcome EXCEPT ![i] = "fetched"]
    /\ pc' = [pc EXCEPT ![i] = "done"]
    /\ UNCHANGED <<card_vars, pure_vars, worker_vars, token_vars, homepage_by,
                   edhrec_elapsed, build_id,
                   deck_hashes, gen_pc, total, completed, yields, yield_of,
                   sleep_left, served, loaded, n_grants, n_requests,
                   edhrec_min_gap>>

\* lines 242-246: future.result(), None when it raises
FutureDeck(i) == IF result[i].kind = "raised" THEN None ELSE result[i].value

\* future.result() outside any try: a raising future ends the generator
fetch_decks_with_progress_yield_unguarded(i) ==
    /\ gen_pc = "running"
    /\ pc[i] = "done"
    /\ \A k \in 1..Len(yield_of) : yield_of[k] # i
    /\ IF result[i].kind = "raised"
       THEN /\ gen_pc' = "exhausted"
            /\ UNCHANGED <<completed, yields, yield_of>>
       ELSE /\ completed' = completed + 1
            /\ yields' = Append(yields, Triple(completed + 1, total, result[i].value))
            /\ yield_of' = Append(yield_of, i)
            /\ UNCHANGED gen_pc
    /\ UNCHANGED <<card_vars, pure_vars, worker_vars, token_vars, homepage_by,
                   edhrec_elapsed, build_id, deck_cache,
                   deck_hashes, total, pc, sleep_left, result, outcome,
                   served, loaded, n_grants, n_requests, edhrec_min_gap>>

\* lines 241-249: as_completed hands over a finished future
fetch_decks_with_progress_yield(i) ==
    /\ gen_pc = "running"
    /\ pc[i] = "done"
    /\ \A k \in 1..Len(yield_of) : yield_of[k] # i
    /\ completed' = completed + 1
    /\ yields' = Append(yields, Triple(completed + 1, total, FutureDeck(i)))
    /\ yield_of' = Append(yield_of, i)
    /\ UNCHANGED <<card_vars, pure_vars, worker_vars, token_vars, homepage_by,
                   edhrec_elapsed, build_id,
                   deck_cache, deck_hashes, gen_pc, total, pc, sleep_left, result,
                   outcome, served, loaded, n_grants, n_requests,
                   edhrec_min_gap>>

\* as_completed is exhausted; the with block shuts the pool down
fetch_decks_with_progress_finish ==
    /\ gen_pc = "running"
    /\ Len(yield_of) = Len(deck_hashes)
    /\ gen_pc' = "exhausted"
    /\ UNCHANGED <<card_vars, pure_vars, worker_vars, token_vars, homepage_by,
                   edhrec_elapsed, build_id,
                   deck_cache, deck_hashes, total, completed, yields, yield_of,
                   pc, sleep_left, result, outcome, served, loaded, n_grants,
                   n_requests, edhrec_min_gap>>

\* time passes by d: every elapsed time grows, every sleep shrinks
Sleeping(i) == pc[i] \in {"bid_grant", "grant"} /\ sleep_left[i] > 0

Max(a, b) == IF a > b THEN a ELSE b

Tick(d) ==
    /\ \/ edhrec_elapsed < EDHREC_MIN_DELAY
       \/ scryfall_elapsed < SCRYFALL_MIN_DELAY
       \/ \E i \in Futures : Sleeping(i)
       \/ call_sleep > 0
       \/ \E w \in DOMAIN w_sleep : w_sleep[w] > 0
       \/ tok_sleep > 0
    /\ edhrec_elapsed' = Min(edhrec_elapsed + d, EDHREC_MIN_DELAY)
    /\ scryfall_elapsed' = Min(scryfall_elapsed + d, SCRYFALL_MIN_DELAY)
    /\ sleep_left' = [i \in Futures |-> Max(sleep_left[i] - d, 0)]
    /\ call_sleep' = Max(call_sleep - d, 0)
    /\ w_sleep' = [w \in DOMAIN w_sleep |-> Max(w_sleep[w] - d, 0)]
    /\ tok_sleep' = Max(tok_sleep - d, 0)
    /\ UNCHANGED <<tok_pc, tok_ret, tok_response, tok_calls, tok_requests,
                   tok_grants>>
    /\ UNCHANGED <<pure_vars, w_pc, w_call, w_dump, scryfall_keys, homepage_by, build_id, deck_cache, deck_hashes, gen_pc, total,
                   completed, yields, yield_of, pc, result, outcome, served,
                   loaded, n_grants, n_requests, edhrec_min_gap,
                   scryfall_cache, scryfall_file, call_pc, call, call_slept,
                   ret, scryfall_cache0, n_reads, n_fetches, answered, n_calls,
                   n_acquired, n_acquired_edhrec, n_table_requests, scryfall_min_gap>>

----------------------------------------------------------------------------
(* Deck index filter: filter_deck_hashes *)

Digits == {"0", "1", "2", "3", "4", "5", "6", "7", "8", "9"}
NonZero == Digits \ {"0"}
DigitVal == ("0" :> 0) @@ ("1" :> 1) @@ ("2" :> 2) @@ ("3" :> 3) @@ ("4" :> 4)
            @@ ("5" :> 5) @@ ("6" :> 6) @@ ("7" :> 7) @@ ("8" :> 8) @@ ("9" :> 9)

\* s[p-1] of Python, "" past either end
At(s, p) == IF p \in 1..Len(s) THEN s[p] ELSE ""

\* int() of a run of digits, a leading blank skipped
RECURSIVE IntOf(_)
IntOf(s) ==
    IF s = <<>> THEN 0
    ELSE IF Head(s) = " " THEN IntOf(Tail(s))
    ELSE 10 * IntOf(SubSeq(s, 1, Len(s) - 1)) + DigitVal[s[Len(s)]]

\* the alternatives of %m, 1[0-2]|0[1-9]|[1-9], in the order the regex tries them
MonthAlt(s, p, k) ==
    CASE k = 1 -> At(s, p) = "1" /\ At(s, p + 1) \in {"0", "1", "2"}
      [] k = 2 -> At(s, p) = "0" /\ At(s, p + 1) \in NonZero
      [] OTHER -> At(s, p) \in NonZero
MonthAltLen == <<2, 2, 1>>

\* the alternatives of %d, 3[0-1]|[1-2]\d|0[1-9]|[1-9]| [1-9]
DayAlt(s, p, k) ==
    CASE k = 1 -> At(s, p) = "3" /\ At(s, p + 1) \in {"0", "1"}
      [] k = 2 -> At(s, p) \in {"1", "2"} /\ At(s, p + 1) \in Digits
      [] k = 3 -> At(s, p) = "0" /\ At(s, p + 1) \in NonZero
      [] k = 4 -> At(s, p) \in NonZero
      [] OTHER -> At(s, p) = " " /\ At(s, p + 1) \in NonZero
DayAltLen == <<2, 2, 2, 1, 2>>

\* the first alternative that matches at p, 0 when none does
DayMatch(s, p) ==
    LET ks == {k \in 1..5 : DayAlt(s, p, k)}
    IN  IF ks = {} THEN 0 ELSE CHOOSE k \in ks : \A j \in ks : k <= j

\* the first month alternative after which "-" and a day match
MonthMatch(s, p) ==
    LET ks == {k \in 1..3 : /\ MonthAlt(s, p, k)
                            /\ At(s, p + MonthAltLen[k]) = "-"
                            /\ DayMatch(s, p + MonthAltLen[k] + 1) # 0}
    IN  IF ks = {} THEN 0 ELSE CHOOSE k \in ks : \A j \in ks : k <= j

IsLeap(y) == (y % 4 = 0 /\ y % 100 # 0) \/ y % 400 = 0

DaysInMonth(y, m) ==
    IF m = 2 THEN (IF IsLeap(y) THEN 29 ELSE 28)
    ELSE IF m \in {4, 6, 9, 11} THEN 30 ELSE 31

NotADate == [raised |-> TRUE, ord |-> 0]

\* line 158: datetime.strptime(s, "%Y-%m-%d"); ord orders the datetimes
StrpTime(s) ==
    IF ~(/\ \A p \in 1..4 : At(s, p) \in Digits
         /\ At(s, 5) = "-"
         /\ MonthMatch(s, 6) # 0)
    THEN NotADate                     \* does not match format
    ELSE
    LET mk == MonthMatch(s, 6)
        dp == 6 + MonthAltLen[mk] + 1
        dk == DayMatch(s, dp)
        end == dp + DayAltLen[dk] - 1
        y == IntOf(SubSeq(s, 1, 4))
        m == IntOf(SubSeq(s, 6, 5 + MonthAltLen[mk]))
        d == IntOf(SubSeq(s, dp, end))
    IN  IF end # Len(s) THEN NotADate                 \* unconverted data remains
        ELSE IF y < 1 THEN NotADate                   \* year out of range
        ELSE IF d > DaysInMonth(y, m) THEN NotADate   \* day out of range for month
        ELSE [raised |-> FALSE, ord |-> y * 10000 + m * 100 + d]

NoDt == [set |-> FALSE, ord |-> 0]

\* a deck summary of deck_table["table"]; savedate_dt is the key line 158 adds
Entry(urlhash, savedate, price) ==
    [urlhash |-> urlhash, savedate |-> savedate, price |-> price,
     savedate_dt |-> NoDt]

\* a date that does not parse passed over instead of raised
ParseEntries_lenient(entries) ==
    [raised |-> FALSE,
     entries |-> [i \in 1..Len(entries) |->
                    [entries[i] EXCEPT !.savedate_dt =
                        [set |-> TRUE,
                         ord |-> StrpTime(entries[i].savedate).ord]]]]

\* lines 157-158: the loop stops at the first date that does not parse
ParseEntries(entries) ==
    LET bad == {i \in 1..Len(entries) : StrpTime(entries[i].savedate).raised}
        stop == IF bad = {} THEN Len(entries) + 1
                ELSE CHOOSE i \in bad : \A j \in bad : i <= j
    IN  [raised |-> bad # {},
         entries |-> [i \in 1..Len(entries) |->
                        IF i < stop
                        THEN [entries[i] EXCEPT !.savedate_dt =
                                [set |-> TRUE,
                                 ord |-> StrpTime(entries[i].savedate).ord]]
                        ELSE entries[i]]]

\* an entry put before the entries of its own date
RECURSIVE Sorted_ties_reversed(_)
Sorted_ties_reversed(entries) ==
    IF entries = <<>> THEN <<>>
    ELSE LET rest == Sorted_ties_reversed(SubSeq(entries, 1, Len(entries) - 1))
             e == entries[Len(entries)]
             n == Cardinality({k \in 1..Len(rest) :
                                  rest[k].savedate_dt.ord > e.savedate_dt.ord})
         IN  SubSeq(rest, 1, n) \o <<e>> \o SubSeq(rest, n + 1, Len(rest))

\* line 160: sorted(entries, key=savedate_dt, reverse=True), a stable sort:
\* each entry goes behind the entries that are not older than it
RECURSIVE Sorted(_)
Sorted(entries) ==
    IF entries = <<>> THEN <<>>
    ELSE LET rest == Sorted(SubSeq(entries, 1, Len(entries) - 1))
             e == entries[Len(entries)]
             n == Cardinality({k \in 1..Len(rest) :
                                  rest[k].savedate_dt.ord >= e.savedate_dt.ord})
         IN  SubSeq(rest, 1, n) \o <<e>> \o SubSeq(rest, n + 1, Len(rest))

\* lines 162-165
Filtered(sorted_entries, lo, hi) ==
    SelectSeq(sorted_entries, LAMBDA e : lo <= e.price /\ e.price <= hi)

\* lines 167-168: filtered[:recent] and the hashes of it
Limited(filtered, n) == Slice(filtered, 0, n)
UrlHashes(limited) == [k \in 1..Len(limited) |-> limited[k].urlhash]

NotCalled == [kind |-> "none", value |-> <<>>]

\* lines 155-168, the whole call
filter_deck_hashes ==
    /\ filter_ret = NotCalled
    /\ LET parsed == ParseEntries(deck_table)
       IN  /\ deck_table' = parsed.entries
           /\ filter_ret' =
                IF parsed.raised THEN [kind |-> "raised", value |-> <<>>]
                ELSE [kind |-> "returned",
                      value |-> UrlHashes(Limited(Filtered(Sorted(parsed.entries),
                                                           min_price, max_price),
                                                  recent))]
    /\ UNCHANGED <<batch_vars, card_vars, worker_vars, token_vars, recent, min_price,
                   max_price, commander_name, formatted_name>>

\* the date strings of the catalogs: two padded dates, an unpadded one, a day
\* that its month does not have, a month that does not exist
Date_0501 == <<"2", "0", "2", "4", "-", "0", "5", "-", "0", "1">>
Date_0615 == <<"2", "0", "2", "4", "-", "0", "6", "-", "1", "5">>
Date_6_1 == <<"2", "0", "2", "4", "-", "6", "-", "1">>
Date_0230 == <<"2", "0", "2", "4", "-", "0", "2", "-", "3", "0">>
Date_1301 == <<"2", "0", "2", "4", "-", "1", "3", "-", "0", "1">>

Prices == {10, 100, 300}
PriceRanges == {<<0, 100>>, <<100, 300>>, <<300, 10>>}
Limits == {-1, 0, 1, 2}
HashNames == <<"h1", "h2", "h3", "h4", "h5">>

\* what one catalog entry can be, but for its hash
EntryKinds ==
    ({Date_0501, Date_0615, Date_6_1} \X Prices)
        \cup ({Date_0230, Date_1301} \X {100})

Catalogs(maxlen) ==
    UNION {{[i \in 1..n |-> Entry(HashNames[i], k[i][1], k[i][2])] :
              k \in [1..n -> EntryKinds]} : n \in 0..maxlen}

----------------------------------------------------------------------------
(* format_commander_name *)

Letters == {"K", "r"}
NameChars == Letters \cup {"7", "_", "'", ",", " ", "\t"}

\* \w and \s of Python's re on these characters
IsWord(c) == c \in Letters \cup Digits \cup {"_"}
IsSpace(c) == c \in {" ", "\t"}

\* line 67: re.sub(r"[^\w\s]", "", commander_name)
ReSub(s) == SelectSeq(s, LAMBDA c : IsWord(c) \/ IsSpace(c))

\* line 68: str.lower()
Lower(s) == [i \in 1..Len(s) |-> IF s[i] = "K" THEN "k" ELSE s[i]]

\* lines 69-70: str.replace(old, new) for a one-character old
RECURSIVE Replace(_, _, _)
Replace(s, old, new) ==
    IF s = <<>> THEN <<>>
    ELSE (IF Head(s) = old THEN new ELSE <<Head(s)>>) \o Replace(Tail(s), old, new)

\* lines 66-71
FormatCommanderName(s) ==
    Replace(Replace(Lower(ReSub(s)), " ", <<"-">>), "'", <<>>)

NotFormatted == [done |-> FALSE, value |-> <<>>]

format_commander_name ==
    /\ ~formatted_name.done
    /\ formatted_name' = [done |-> TRUE, value |-> FormatCommanderName(commander_name)]
    /\ UNCHANGED <<batch_vars, card_vars, worker_vars, token_vars, deck_table, recent,
                   min_price, max_price, filter_ret, commander_name>>

----------------------------------------------------------------------------
(* Concurrent callers of get_card_type / get_card_metadata *)

Workers == DOMAIN w_pc

worker_frame == <<batch_vars, pure_vars, token_vars, call_pc, call, call_sleep, call_slept,
                  ret, scryfall_cache0, n_calls, n_acquired,
                  n_acquired_edhrec, n_table_requests>>

\* lines 270-279 and 329-342: the look at the cache that starts a read
worker_read(w, op, card_name) ==
    /\ w_pc[w] = "idle"
    /\ w_call' = [w_call EXCEPT ![w] = [op |-> op, card_name |-> card_name]]
    /\ LET cached == scryfall_cache[card_name]
           fetches == IF op = "get_card_type" THEN get_card_type_fetches(cached)
                      ELSE get_card_metadata_fetches(cached)
       IN  IF fetches
           THEN /\ w_pc' = [w_pc EXCEPT ![w] = "rl_read"]
                /\ UNCHANGED n_reads
           ELSE /\ w_pc' = [w_pc EXCEPT ![w] = "done"]
                /\ n_reads' = [n_reads EXCEPT ![card_name][op] = @ + 1]
    /\ UNCHANGED <<worker_frame, edhrec_elapsed, scryfall_elapsed, scryfall_cache,
                   scryfall_keys, scryfall_file, n_fetches, answered,
                   scryfall_min_gap, w_sleep, w_dump>>

\* lines 49-51
worker_rate_limit_read(w) ==
    /\ w_pc[w] = "rl_read"
    /\ w_sleep' = [w_sleep EXCEPT ![w] =
                      SleepTime(scryfall_elapsed, SCRYFALL_MIN_DELAY)]
    /\ w_pc' = [w_pc EXCEPT ![w] = "rl_wait"]
    /\ UNCHANGED <<worker_frame, edhrec_elapsed, scryfall_elapsed, scryfall_cache,
                   scryfall_keys, scryfall_file, n_reads, n_fetches, answered,
                   scryfall_min_gap, w_call, w_dump>>

\* line 52, once the sleep (if any) is over
worker_rate_limit_update(w) ==
    /\ w_pc[w] = "rl_wait"
    /\ w_sleep[w] = 0
    /\ scryfall_elapsed' = 0
    /\ scryfall_min_gap' = Min(scryfall_min_gap, scryfall_elapsed)
    /\ w_pc' = [w_pc EXCEPT ![w] = "request"]
    /\ UNCHANGED <<worker_frame, edhrec_elapsed, scryfall_cache, scryfall_keys,
                   scryfall_file, n_reads, n_fetches, answered, w_call, w_sleep,
                   w_dump>>

\* no json.dump under way
NoDump == [used |-> 0, pos |-> 0, text |-> <<>>]

\* lines 295-311 with 282 / 288, and lines 345-369: the request, the record
\* made of the response, and its assignment to the shared dict
worker_request(w) ==
    /\ w_pc[w] = "request"
    /\ \E r \in ScryfallResponses :
          LET meta == IF w_call[w].op = "get_card_type"
                      THEN fetch_scryfall_metadata(r)
                      ELSE metadata_of_response(r)
          IN  /\ scryfall_cache' = StoreMeta(scryfall_cache, w_call[w].card_name, meta)
              /\ answered' = [answered EXCEPT ![w_call[w].card_name] = r.status_code]
    /\ scryfall_keys' = KeysAfter(scryfall_keys, w_call[w].card_name)
    /\ n_fetches' = [n_fetches EXCEPT ![w_call[w].card_name] = @ + 1]
    /\ w_pc' = [w_pc EXCEPT ![w] = "save"]
    /\ UNCHANGED <<worker_frame, edhrec_elapsed, scryfall_elapsed, scryfall_file,
                   n_reads, scryfall_min_gap, w_call, w_sleep, w_dump>>

\* line 266 and the start of line 267: open(path, "w") empties the file, and
\* json.dump puts the opening brace and the first indent into the buffer. No
\* iterator over the dict exists yet
save_scryfall_cache_open(w) ==
    /\ w_pc[w] = "save"
    /\ scryfall_file' = <<>>
    /\ w_dump' = [w_dump EXCEPT ![w] = [used |-> 0, pos |-> 0, text |-> JsonOpen]]
    /\ w_pc' = [w_pc EXCEPT ![w] = "dump"]
    /\ UNCHANGED <<worker_frame, edhrec_elapsed, scryfall_elapsed, scryfall_cache,
                   scryfall_keys, n_reads, n_fetches, answered,
                   scryfall_min_gap, w_call, w_sleep>>

\* line 267: one turn of json.dump's loop over the dict. The first turn
\* creates the iterator, which notes the size the dict has then, and takes the
\* first item with no other thread in between. A later next() raises
\* RuntimeError when the dict has changed size since the iterator was created;
\* otherwise the next item is encoded with the value it has now, or, after the
\* last item, the closing brace goes into the buffer
save_scryfall_cache_next(w) ==
    /\ w_pc[w] = "dump"
    /\ LET d == w_dump[w]
           key == scryfall_keys[d.pos + 1]
           item == JsonItem(d.pos = 0, key, scryfall_cache[key])
       IN  IF d.pos = 0
           THEN /\ w_dump' = [w_dump EXCEPT ![w] =
                                 [used |-> Len(scryfall_keys), pos |-> 1,
                                  text |-> d.text \o item]]
                /\ UNCHANGED w_pc
           ELSE IF Len(scryfall_keys) # d.used
           THEN /\ w_pc' = [w_pc EXCEPT ![w] = "unwind"]
                /\ UNCHANGED w_dump
           ELSE IF d.pos < d.used
           THEN /\ w_dump' = [w_dump EXCEPT ![w] =
                                 [used |-> d.used, pos |-> d.pos + 1,
                                  text |-> d.text \o item]]
                /\ UNCHANGED w_pc
           ELSE /\ w_dump' = [w_dump EXCEPT ![w] =
                                 [used |-> d.used, pos |-> d.pos,
                                  text |-> d.text \o JsonClose]]
                /\ w_pc' = [w_pc EXCEPT ![w] = "close"]
    /\ UNCHANGED <<worker_frame, edhrec_elapsed, scryfall_elapsed, scryfall_cache,
                   scryfall_keys, scryfall_file, n_reads, n_fetches, answered,
                   scryfall_min_gap, w_call, w_sleep>>

\* line 266, leaving the with block: the buffer is written at the start of
\* the file, over what other threads have written since the open. After a
\* whole document the read returns (lines 284, 290, 371); after RuntimeError
\* the buffer holds the document as far as it got and the exception leaves
\* the read
save_scryfall_cache_close(w) ==
    /\ w_pc[w] \in {"close", "unwind"}
    /\ scryfall_file' = Written(scryfall_file, w_dump[w].text)
    /\ w_dump' = [w_dump EXCEPT ![w] = NoDump]
    /\ IF w_pc[w] = "close"
       THEN /\ w_pc' = [w_pc EXCEPT ![w] = "done"]
            /\ n_reads' = [n_reads EXCEPT
                              ![w_call[w].card_name][w_call[w].op] = @ + 1]
       ELSE /\ w_pc' = [w_pc EXCEPT ![w] = "raised"]
            /\ UNCHANGED n_reads
    /\ UNCHANGED <<worker_frame, edhrec_elapsed, scryfall_elapsed, scryfall_cache,
                   scryfall_keys, n_fetches, answered, scryfall_min_gap, w_call,
                   w_sleep>>

----------------------------------------------------------------------------
(* A caller of fetch_edhrec_build_id, one call at a time *)

HomepageGood2 == static_marker \o <<"b", "u", "i", "l", "d", "2", "/">> \o marker
HomepageShortId == static_marker \o <<"a", "b", "c", "/">> \o marker
HomepageNoStatic == <<"/", "x", "/">> \o marker

HomepageTwoStatic ==
    static_marker \o <<"o", "l", "d", "/">> \o HomepageGood2

\* the characters between the two markers of a generated homepage
IdChars == {"a", "/"}

\* what requests.get("https://edhrec.com") may answer
TokenHomepages ==
    { [status_code |-> 200, text |-> HomepageGood],
      [status_code |-> 200, text |-> HomepageGood2],
      [status_code |-> 200, text |-> HomepageBare],
      [status_code |-> 200, text |-> HomepageNoStatic],
      [status_code |-> 200, text |-> HomepageShortId],
      [status_code |-> 404, text |-> HomepageGood],
      [status_code |-> 503, text |-> <<>>],
      [status_code |-> 200, text |-> HomepageTwoStatic] }
    \cup { [status_code |-> 200, text |-> static_marker \o id \o marker] :
               id \in AllSeqs(IdChars, MaxIdLen) }

NoResponse == [status_code |-> 0, text |-> <<>>]

\* the stored token never consulted
build_id_cached_never(bid) == FALSE

\* line 82: if self.build_id
build_id_cached(bid) == Truthy(bid)

\* lines 82-83: return the stored token, or go on to rate_limit_edhrec()
fetch_edhrec_build_id ==
    /\ tok_pc = "idle"
    /\ tok_calls < MaxCalls
    /\ tok_calls' = tok_calls + 1
    /\ IF build_id_cached(build_id)
       THEN /\ tok_ret' = Returned(build_id)
            /\ UNCHANGED tok_pc
       ELSE /\ tok_pc' = "rl_read"
            /\ UNCHANGED tok_ret
    /\ UNCHANGED <<batch_vars, card_vars, pure_vars, worker_vars, tok_sleep,
                   tok_response, tok_requests, tok_grants>>

\* line 85, lines 55-57: read the clock and the timestamp, sleep if needed
fetch_edhrec_build_id_rate_limit_read ==
    /\ tok_pc = "rl_read"
    /\ LET elapsed == edhrec_elapsed
       IN  tok_sleep' = SleepTime(elapsed, EDHREC_MIN_DELAY)
    /\ tok_pc' = "rl_wait"
    /\ UNCHANGED <<batch_vars, card_vars, pure_vars, worker_vars, tok_ret,
                   tok_response, tok_calls, tok_requests, tok_grants>>

\* line 85, line 58, once the sleep (if any) is over
fetch_edhrec_build_id_rate_limit_update ==
    /\ tok_pc = "rl_wait"
    /\ tok_sleep = 0
    /\ edhrec_elapsed' = 0
    /\ edhrec_min_gap' = Min(edhrec_min_gap, edhrec_elapsed)
    /\ tok_grants' = tok_grants + 1
    /\ tok_pc' = "request"
    /\ UNCHANGED <<card_vars, pure_vars, worker_vars, build_id, deck_cache,
                   deck_hashes, gen_pc, total, completed, yields, yield_of,
                   pc, sleep_left, result, outcome, served, loaded, n_grants,
                   n_requests, homepage_by, tok_sleep, tok_ret, tok_response,
                   tok_calls, tok_requests>>

\* lines 86-113: the homepage request and what is made of the response
fetch_edhrec_build_id_get ==
    /\ tok_pc = "request"
    /\ \E r \in TokenHomepages :
          LET x == ExtractBuildId(r)
          IN  /\ tok_response' = r
              /\ tok_ret' = IF x.raised THEN Raised ELSE Returned(x.build_id)
              /\ build_id' = IF x.raised THEN build_id ELSE x.build_id
    /\ tok_requests' = tok_requests + 1
    /\ tok_pc' = "idle"
    /\ UNCHANGED <<card_vars, pure_vars, worker_vars, edhrec_elapsed,
                   deck_cache, deck_hashes, gen_pc, total, completed, yields,
                   yield_of, pc, sleep_left, result, outcome, served, loaded,
                   n_grants, n_requests, edhrec_min_gap, homepage_by,
                   tok_sleep, tok_calls, tok_grants>>

----------------------------------------------------------------------------
(* Initial states *)

\* no filter_deck_hashes and no format_commander_name call is made
InitNoPure ==
    /\ deck_table = <<>>
    /\ recent = 0
    /\ min_price = 0
    /\ max_price = 0
    /\ filter_ret = NotCalled
    /\ commander_name = <<>>
    /\ formatted_name = NotFormatted

\* n threads about to read the metadata cache
InitWorkers(n) ==
    /\ w_pc = [w \in 1..n |-> "idle"]
    /\ w_call = [w \in 1..n |-> NoCall]
    /\ w_sleep = [w \in 1..n |-> 0]
    /\ w_dump = [w \in 1..n |-> NoDump]

\* line 31: no call of fetch_edhrec_build_id has been made by the caller
InitNoToken ==
    /\ tok_pc = "idle"
    /\ tok_sleep = 0
    /\ tok_ret = Pending
    /\ tok_response = NoResponse
    /\ tok_calls = 0
    /\ tok_requests = 0
    /\ tok_grants = 0

\* lines 25-27, 42: the analyzer as constructed on a metadata cache file
InitAnalyzer(caches) ==
    /\ scryfall_cache \in caches
    /\ scryfall_keys \in KeyOrders(scryfall_cache)
    /\ scryfall_file = JsonText(scryfall_keys, scryfall_cache)
    /\ scryfall_cache0 = scryfall_cache
    /\ scryfall_elapsed = SCRYFALL_MIN_DELAY
    /\ call_pc = "idle"
    /\ call = NoCall
    /\ call_sleep = 0
    /\ call_slept = 0
    /\ ret = NoReturn
    /\ n_reads = [c \in CardNames |-> [op \in ReadOps |-> 0]]
    /\ n_fetches = [c \in CardNames |-> 0]
    /\ answered = [c \in CardNames |-> 0]
    /\ n_calls = 0
    /\ n_acquired = 0
    /\ n_acquired_edhrec = 0
    /\ n_table_requests = 0
    /\ scryfall_min_gap = SCRYFALL_MIN_DELAY

\* line 26, and the generator of fetch_decks_with_progress before its first
\* next(), for a batch out of the given ones
InitBatchOf(batches) ==
    /\ edhrec_elapsed = EDHREC_MIN_DELAY
    /\ gen_pc = "created"
    /\ total = 0
    /\ completed = 0
    /\ yields = <<>>
    /\ yield_of = <<>>
    /\ deck_hashes \in batches
    /\ pc = [i \in Futures |-> "queued"]
    /\ sleep_left = [i \in Futures |-> 0]
    /\ result = [i \in Futures |-> Pending]
    /\ outcome = [i \in Futures |-> "none"]
    /\ served = [i \in Futures |-> None]
    /\ loaded = [i \in Futures |-> [parsed |-> FALSE, value |-> None]]
    /\ n_grants = [i \in Futures |-> 0]
    /\ n_requests = [i \in Futures |-> 0]
    /\ edhrec_min_gap = EDHREC_MIN_DELAY
    /\ homepage_by = {}

\* the batches of up to maxlen hashes that are empty or begin with "d1"
InitBatch(maxlen) ==
    InitBatchOf({s \in AllSeqs(DeckIds, maxlen) : s = <<>> \/ s[1] = "d1"})

\* A batch of up to MaxDecks hashes in any order, duplicates included, on
\* every cache directory, in a fresh process or with the token in store
Init ==
    /\ InitNoPure
    /\ InitWorkers(0)
    /\ InitNoToken
    /\ InitAnalyzer({[c \in CardNames |-> Absent]})
    /\ InitBatchOf(AllSeqs(DeckIds, MaxDecks))
    /\ build_id \in {None, PyStr(<<"b", "u", "i", "l", "d", "0">>)}
    /\ deck_cache \in InitDeckCaches

Next ==
    \/ fetch_decks_with_progress_start
    \/ \E i \in Futures : executor_run(i)
    \/ \E i \in Futures : fetch_deck_by_hash_load(i)
    \/ \E i \in Futures : rate_limit_edhrec_read(i)
    \/ \E i \in Futures : rate_limit_edhrec_update(i)
    \/ \E i \in Futures : fetch_edhrec_build_id_request(i)
    \/ \E i \in Futures : fetch_deck_by_hash_request(i)
    \/ \E i \in Futures : save_deck_to_cache_open(i)
    \/ \E i \in Futures : save_deck_to_cache_close(i)
    \/ \E i \in Futures : fetch_decks_with_progress_yield(i)
    \/ fetch_decks_with_progress_finish
    \/ Tick(EdhrecTick)

Spec == Init /\ [][Next]_vars

\* every pool thread that can take a step eventually takes one, every request
\* is eventually answered, time passes, and the consumer keeps calling next()
Fairness ==
    /\ WF_vars(fetch_decks_with_progress_start)
    /\ WF_vars(\E i \in Futures : executor_run(i))
    /\ WF_vars(\E i \in Futures : fetch_deck_by_hash_load(i))
    /\ WF_vars(\E i \in Futures : rate_limit_edhrec_read(i))
    /\ WF_vars(\E i \in Futures : rate_limit_edhrec_update(i))
    /\ WF_vars(\E i \in Futures : fetch_edhrec_build_id_request(i))
    /\ WF_vars(\E i \in Futures : fetch_deck_by_hash_request(i))
    /\ WF_vars(\E i \in Futures : save_deck_to_cache_open(i))
    /\ WF_vars(\E i \in Futures : save_deck_to_cache_close(i))
    /\ WF_vars(\E i \in Futures : fetch_decks_with_progress_yield(i))
    /\ WF_vars(fetch_decks_with_progress_finish)
    /\ WF_vars(Tick(EdhrecTick))

\* A batch in a fresh process, of decks without a cache file ("d1") and
\* decks with one ("d2"), in any number; the first hash is "d1"
InitFair ==
    /\ InitNoPure
    /\ InitWorkers(0)
    /\ InitNoToken
    /\ InitAnalyzer({[c \in CardNames |-> Absent]})
    /\ InitBatch(MaxFairDecks)
    /\ build_id = None
    /\ deck_cache = [d \in DeckIds |-> IF d = "d1" THEN Missing
                                       ELSE PyList(<<"1 Forest">>)]

FairSpec == InitFair /\ [][Next]_vars /\ Fairness

\* A batch larger than the pool, every deck already cached
InitPool ==
    /\ InitNoPure
    /\ InitWorkers(0)
    /\ InitNoToken
    /\ InitAnalyzer({[c \in CardNames |-> Absent]})
    /\ InitBatch(MaxPoolDecks)
    /\ build_id = PyStr(<<"b", "u", "i", "l", "d", "0">>)
    /\ deck_cache = [d \in DeckIds |-> PyList(<<"1 Forest">>)]

NextPool ==
    \/ fetch_decks_with_progress_start
    \/ \E i \in Futures : executor_run(i)
    \/ \E i \in Futures : fetch_deck_by_hash_load(i)
    \/ \E i \in Futures : fetch_decks_with_progress_yield(i)
    \/ fetch_decks_with_progress_finish

SpecPool == InitPool /\ [][NextPool]_vars

\* One caller, one call at a time, on a cache of absent, legacy and current
\* entries; no batch is running
InitSeq ==
    /\ InitNoPure
    /\ InitWorkers(0)
    /\ InitNoToken
    /\ InitAnalyzer([CardNames -> {Absent, Legacy("Artifact"),
                                   Meta("Artifact", "sol.jpg", "scryfall/sol")}])
    /\ InitBatch(0)
    /\ build_id = None
    /\ deck_cache = [d \in DeckIds |-> Missing]

NextSeq ==
    \/ \E card_name \in CardNames : get_card_type(card_name)
    \/ \E card_name \in CardNames : get_card_metadata(card_name)
    \/ rate_limit_read
    \/ rate_limit_update
    \/ scryfall_request
    \/ Tick(ScryfallTick)

SpecSeq == InitSeq /\ [][NextSeq]_vars

\* One caller acquiring the two rate limiters, one call at a time
InitLimiter ==
    /\ InitNoPure
    /\ InitWorkers(0)
    /\ InitNoToken
    /\ InitAnalyzer({[c \in CardNames |-> Absent]})
    /\ InitBatch(0)
    /\ build_id = None
    /\ deck_cache = [d \in DeckIds |-> Missing]

NextLimiter ==
    \/ \E op \in {"rate_limit_scryfall", "rate_limit_edhrec"} : rate_limit_call(op)
    \/ rate_limit_read
    \/ rate_limit_update
    \/ Tick(ScryfallTick)

SpecLimiter == InitLimiter /\ [][NextLimiter]_vars

\* One call of filter_deck_hashes on a catalog
InitFilter ==
    /\ InitWorkers(0)
    /\ InitNoToken
    /\ InitAnalyzer({[c \in CardNames |-> Absent]})
    /\ InitBatch(0)
    /\ build_id = None
    /\ deck_cache = [d \in DeckIds |-> Missing]
    /\ deck_table \in Catalogs(MaxEntries)
    /\ recent \in Limits
    /\ \E range \in PriceRanges : min_price = range[1] /\ max_price = range[2]
    /\ filter_ret = NotCalled
    /\ commander_name = <<>>
    /\ formatted_name = NotFormatted

NextFilter == filter_deck_hashes

SpecFilter == InitFilter /\ [][NextFilter]_vars

\* One call of format_commander_name on a name
InitFormat ==
    /\ InitWorkers(0)
    /\ InitNoToken
    /\ InitAnalyzer({[c \in CardNames |-> Absent]})
    /\ InitBatch(0)
    /\ build_id = None
    /\ deck_cache = [d \in DeckIds |-> Missing]
    /\ deck_table = <<>>
    /\ recent = 0
    /\ min_price = 0
    /\ max_price = 0
    /\ filter_ret = NotCalled
    /\ commander_name \in AllSeqs(NameChars, MaxNameLen)
    /\ formatted_name = NotFormatted

NextFormat == format_commander_name

SpecFormat == InitFormat /\ [][NextFormat]_vars

\* Threads that each make one read of the metadata cache, on a cache of
\* absent and legacy entries
InitReaders ==
    /\ InitNoPure
    /\ InitWorkers(MaxReaders)
    /\ InitNoToken
    /\ InitAnalyzer([CardNames -> {Absent, Legacy("Artifact")}])
    /\ InitBatch(0)
    /\ build_id = None
    /\ deck_cache = [d \in DeckIds |-> Missing]

NextReaders ==
    \/ \E w \in Workers, op \in ReadOps, card_name \in CardNames :
          worker_read(w, op, card_name)
    \/ \E w \in Workers : worker_rate_limit_read(w)
    \/ \E w \in Workers : worker_rate_limit_update(w)
    \/ \E w \in Workers : worker_request(w)
    \/ \E w \in Workers : save_scryfall_cache_open(w)
    \/ \E w \in Workers : save_scryfall_cache_next(w)
    \/ \E w \in Workers : save_scryfall_cache_close(w)
    \/ Tick(ScryfallTick)

SpecReaders == InitReaders /\ [][NextReaders]_vars

\* One caller of fetch_edhrec_build_id in a fresh process; no batch is running
InitToken ==
    /\ InitNoPure
    /\ InitWorkers(0)
    /\ InitNoToken
    /\ InitAnalyzer({[c \in CardNames |-> Absent]})
    /\ InitBatch(0)
    /\ build_id = None
    /\ deck_cache = [d \in DeckIds |-> Missing]

NextToken ==
    \/ fetch_edhrec_build_id
    \/ fetch_edhrec_build_id_rate_limit_read
    \/ fetch_edhrec_build_id_rate_limit_update
    \/ fetch_edhrec_build_id_get
    \/ Tick(EdhrecTick)

SpecToken == InitToken /\ [][NextToken]_vars

\* One run of the application in a fresh process, every kind of outbound
\* request in it: the calling thread fetches deck indexes, then runs a batch
\* and consumes it, then reads card metadata
InitRequests ==
    /\ InitNoPure
    /\ InitWorkers(0)
    /\ InitNoToken
    /\ InitAnalyzer({[c \in CardNames |-> Absent]})
    /\ InitBatch(MaxRequestDecks)
    /\ build_id = None
    /\ deck_cache = [d \in DeckIds |-> Missing]

NextRequests ==
    \/ fetch_decks_with_progress_start
    \/ \E i \in Futures : executor_run(i)
    \/ \E i \in Futures : fetch_deck_by_hash_load(i)
    \/ \E i \in Futures : rate_limit_edhrec_read(i)
    \/ \E i \in Futures : rate_limit_edhrec_update(i)
    \/ \E i \in Futures : fetch_edhrec_build_id_request(i)
    \/ \E i \in Futures : fetch_deck_by_hash_request(i)
    \/ \E i \in Futures : save_deck_to_cache_open(i)
    \/ \E i \in Futures : save_deck_to_cache_close(i)
    \/ \E i \in Futures : fetch_decks_with_progress_yield(i)
    \/ fetch_decks_with_progress_finish
    \/ gen_pc = "created" /\ fetch_deck_table
    \/ fetch_deck_table_request
    \/ gen_pc = "exhausted" /\ get_card_type("Sol Ring")
    \/ gen_pc = "exhausted" /\ get_card_metadata("Sol Ring")
    \/ rate_limit_read
    \/ rate_limit_update
    \/ scryfall_request
    \/ Tick(EdhrecTick)

SpecRequests == InitRequests /\ [][NextRequests]_vars

----------------------------------------------------------------------------
(* Claims about the batch *)

Failed(i) == outcome[i] = "failed"

\* C1: a fully consumed batch over N >= 1 hashes has yielded exactly N
\* triples, one from each submitted future; the k-th triple yielded has
\* completed = k and every triple has total = N.
C1_OneTriplePerKey ==
    /\ \A k \in 1..Len(yields) :
          yields[k].completed = k /\ yields[k].total = Len(deck_hashes)
    /\ (gen_pc = "exhausted" /\ deck_hashes # <<>>) =>
          /\ Len(yields) = Len(deck_hashes)
          /\ \A i \in Futures :
                Cardinality({k \in 1..Len(yield_of) : yield_of[k] = i}) = 1

\* a consumed batch with a duplicated hash, yielded out of input order
C1_Witness ==
    /\ gen_pc = "exhausted"
    /\ Len(deck_hashes) >= 2
    /\ deck_hashes[1] = deck_hashes[2]
    /\ yield_of[1] = 2
    /\ Len(yields) = Len(deck_hashes)

\* the batch is not aborted: every triple carries what its own future's
\* fetch produced (None when it failed), and every future is yielded
NotAborted ==
    /\ \A k \in 1..Len(yields) :
          yields[k].deck = IF Failed(yield_of[k]) THEN None
                           ELSE served[yield_of[k]]
    /\ gen_pc = "exhausted" =>
          \A i \in Futures : \E k \in 1..Len(yield_of) : yield_of[k] = i

\* C2: failing fetches do not abort the batch: every triple carries what
\* its own future's fetch produced, every future is yielded, and as many
\* triples are failed (None) as fetches failed.
C2_PartialFailure ==
    /\ NotAborted
    /\ gen_pc = "exhausted" =>
          Cardinality({k \in 1..Len(yields) : yields[k].deck = None})
             = Cardinality({i \in Futures : Failed(i)})

\* a consumed batch in which no fetch failed, and the triple of a fetch
\* that was answered 200 with a null deck, and wrote it to its cache file,
\* is None as for a failure
C2_Witness ==
    /\ gen_pc = "exhausted"
    /\ Len(yields) >= 2
    /\ \A i \in Futures : ~Failed(i)
    /\ \E k \in 1..Len(yields) :
          /\ outcome[yield_of[k]] = "fetched"
          /\ n_requests[yield_of[k]] = 1
          /\ deck_cache[deck_hashes[yield_of[k]]] = None
          /\ yields[k].deck = None

\* C3: at most min(5, N) fetch_deck_by_hash calls are in flight at a time.
C3_BoundedInFlight ==
    in_flight <= Min(MAX_WORKERS, Len(deck_hashes))

\* five fetches in flight while a sixth future waits in the queue
C3_Witness ==
    /\ in_flight = MAX_WORKERS
    /\ \E i \in Futures : pc[i] = "queued"

\* C4: any two grants of rate_limit_edhrec are at least EDHREC_MIN_DELAY
\* apart, whatever the interleaving of the workers.
C4_GrantsSpaced == edhrec_min_gap >= EDHREC_MIN_DELAY

\* two workers granted at the same instant, each then past its own grant
C4_Witness ==
    \E i, j \in Futures :
        /\ i # j
        /\ n_grants[i] >= 1
        /\ n_grants[j] >= 1
        /\ edhrec_elapsed = 0
        /\ edhrec_min_gap = 0

\* C6: a future whose cache file existed and parsed returns the stored value
\* without a request and without a rate-limiter grant.
C6_ParsableFileIsAHit ==
    \A i \in Futures :
        loaded[i].parsed =>
            /\ n_requests[i] = 0
            /\ n_grants[i] = 0
            /\ pc[i] \in {"load", "done"}
            /\ pc[i] = "done" => result[i] = Returned(loaded[i].value)

\* a cache file that parsed to [] was fetched again and rewritten
C6_Witness ==
    \E i \in Futures :
        /\ loaded[i] = [parsed |-> TRUE, value |-> PyList(<<>>)]
        /\ n_grants[i] >= 1
        /\ n_requests[i] >= 1
        /\ pc[i] = "done"
        /\ deck_cache[deck_hashes[i]] = PyList(<<"1 Sol Ring">>)

----------------------------------------------------------------------------
(* Claims about the sequential caller *)

\* C5: one caller acquiring a rate limiter again and again is granted it at
\* least the service's minimum delay after the previous grant.
C5_SequentialGrantsSpaced ==
    /\ scryfall_min_gap >= SCRYFALL_MIN_DELAY
    /\ edhrec_min_gap >= EDHREC_MIN_DELAY

\* a third grant, given after a sleep shorter than the Scryfall delay
C5_Witness ==
    /\ n_acquired >= 3
    /\ call_pc = "idle"
    /\ call.op = "rate_limit_scryfall"
    /\ call_slept > 0
    /\ call_slept < SCRYFALL_MIN_DELAY
    /\ scryfall_elapsed = 0

TotalReads(c) ==
    n_reads[c]["get_card_type"] + n_reads[c]["get_card_metadata"]

\* C7: a name absent from the cache is requested once: the first read
\* stores a dict, every later read returns that dict's data without a request.
C7_AbsentNameFetchedOnce ==
    \A c \in CardNames :
        (scryfall_cache0[c].shape = "absent" /\ TotalReads(c) >= 1) =>
            /\ n_fetches[c] = 1
            /\ scryfall_cache[c].shape = "dict"
            /\ (ret.card_name = c /\ TotalReads(c) >= 2) =>
                  /\ ~ret.fetched
                  /\ ret.value = Returns(ret.op, scryfall_cache[c])

\* an absent name read by both methods, the later read answered by the cache
C7_Witness ==
    \E c \in CardNames :
        /\ scryfall_cache0[c].shape = "absent"
        /\ n_reads[c]["get_card_type"] >= 1
        /\ n_reads[c]["get_card_metadata"] >= 1
        /\ ret.card_name = c
        /\ ~ret.fetched

\* the cache file is the document of the dict in memory, with e under c
FileHolds(c, e) ==
    scryfall_file = JsonText(scryfall_keys, [scryfall_cache EXCEPT ![c] = e])

\* C8: the first read of a legacy name through either method re-fetches
\* it, stores a dict and writes the cache file.
C8_EitherReadUpgrades ==
    \A c \in CardNames :
        (scryfall_cache0[c].shape = "str" /\ TotalReads(c) >= 1) =>
            /\ scryfall_cache[c].shape = "dict"
            /\ n_fetches[c] = 1
            /\ FileHolds(c, scryfall_cache[c])

\* lines 279-284: what holds of get_card_type alone; its first read of a
\* legacy name makes one request, stores a dict and writes it to the file
get_card_type_upgrades ==
    \A c \in CardNames :
        (scryfall_cache0[c].shape = "str" /\ n_reads[c]["get_card_type"] >= 1) =>
            /\ scryfall_cache[c].shape = "dict"
            /\ n_fetches[c] = 1
            /\ FileHolds(c, scryfall_cache[c])

\* a legacy name was read through get_card_metadata only: the read returned
\* the str as type line, nothing was requested, and the entry and the file
\* still hold the str
C8_Witness ==
    \E c \in CardNames :
        /\ scryfall_cache0[c].shape = "str"
        /\ n_reads[c]["get_card_metadata"] >= 1
        /\ n_reads[c]["get_card_type"] = 0
        /\ ret.card_name = c
        /\ ~ret.fetched
        /\ ret.value = [kind |-> "dict",
                        type_line |-> scryfall_cache0[c].type_line,
                        image_url |-> NoneStr,
                        scryfall_uri |-> NoneStr]
        /\ n_fetches[c] = 0
        /\ scryfall_cache[c] = scryfall_cache0[c]
        /\ FileHolds(c, scryfall_cache0[c])

\* C9: an entry that is a dict is never requested again and never changes.
C9_CurrentShapeIsFinal ==
    [][\A c \in CardNames :
          scryfall_cache[c].shape = "dict" =>
              /\ scryfall_cache'[c] = scryfall_cache[c]
              /\ n_fetches'[c] = n_fetches[c]]_vars

\* an entry that became a dict by a fetch and was read twice more
C9_Witness ==
    \E c \in CardNames :
        /\ scryfall_cache0[c].shape # "dict"
        /\ scryfall_cache[c].shape = "dict"
        /\ n_reads[c]["get_card_type"] >= 1
        /\ n_reads[c]["get_card_metadata"] >= 2
        /\ n_fetches[c] = 1

\* C10: a non-success answer is stored and written as the record
\* ("Unknown", no image, no URI), which the read and every later read
\* return without another request.
C10_NonSuccessIsCached ==
    \A c \in CardNames :
        (answered[c] # 0 /\ answered[c] # 200) =>
            /\ scryfall_cache[c] = Meta("Unknown", NoneStr, NoneStr)
            /\ FileHolds(c, Meta("Unknown", NoneStr, NoneStr))
            /\ n_fetches[c] = 1
            /\ ret.card_name = c =>
                  ret.value = Returns(ret.op, Meta("Unknown", NoneStr, NoneStr))

\* a name answered 404, read again from the cache by the other method
C10_Witness ==
    \E c \in CardNames :
        /\ answered[c] = 404
        /\ n_reads[c]["get_card_type"] >= 1
        /\ n_reads[c]["get_card_metadata"] >= 1
        /\ ret.card_name = c
        /\ ~ret.fetched

----------------------------------------------------------------------------
(* Claims about filter_deck_hashes *)

Returned_hashes == filter_ret.value
InRange(i) == min_price <= deck_table[i].price /\ deck_table[i].price <= max_price
Eligible == {i \in 1..Len(deck_table) : InRange(i)}

\* C11: whatever the limit, the call returns at most `recent` hashes (none
\* for a limit below 1), each the hash of an entry whose price lies in
\* [min_price, max_price].
C11_AtMostLimitInRange ==
    filter_ret.kind = "returned" =>
        /\ Len(Returned_hashes) <= Max(recent, 0)
        /\ \A k \in 1..Len(Returned_hashes) :
              \E i \in Eligible : deck_table[i].urlhash = Returned_hashes[k]

\* a limit of -1 on a catalog with two eligible entries: one hash comes back
C11_Witness ==
    /\ filter_ret.kind = "returned"
    /\ recent = -1
    /\ Cardinality(Eligible) = 2
    /\ Len(Returned_hashes) = 1

\* the date of an entry, and the order the claim puts the entries in:
\* newer first, catalog order among equal dates
DateOf(i) == StrpTime(deck_table[i].savedate).ord
Before(i, j) == DateOf(i) > DateOf(j) \/ (DateOf(i) = DateOf(j) /\ i < j)
Rank(i) == Cardinality({j \in Eligible : Before(j, i)})

\* C12: the hashes returned are those of the first entries of the eligible
\* entries taken newest first, ties in catalog order: the k-th hash is the
\* hash of the eligible entry that k-1 eligible entries precede, and for a
\* limit >= 0 there are min(limit, number of eligible entries) of them.
C12_NewestFirstStable ==
    filter_ret.kind = "returned" =>
        /\ Len(Returned_hashes) <= Cardinality(Eligible)
        /\ recent >= 0 =>
              Len(Returned_hashes) = Min(recent, Cardinality(Eligible))
        /\ \A k \in 1..Len(Returned_hashes) :
              \E i \in Eligible :
                  /\ Rank(i) = k - 1
                  /\ Returned_hashes[k] = deck_table[i].urlhash

\* two eligible entries of one date and a newer entry outside the price
\* range, limit 1: the earlier-listed of the two is the one returned
C12_Witness ==
    /\ filter_ret.kind = "returned"
    /\ recent = 1
    /\ Len(deck_table) = 3
    /\ Eligible = {1, 2}
    /\ DateOf(1) = DateOf(2)
    /\ DateOf(3) > DateOf(1)
    /\ Returned_hashes = <<"h1">>

\* the fields of s between its "-" characters
RECURSIVE Fields(_)
Fields(s) ==
    LET dash == Find(s, <<"-">>, 0)
    IN  IF dash = -1 THEN <<s>>
        ELSE <<SubSeq(s, 1, dash)>> \o Fields(SubSeq(s, dash + 2, Len(s)))

AllDigits(f) == \A p \in 1..Len(f) : f[p] \in Digits

\* a zero-padded YYYY-MM-DD string that names a day of the calendar
StrictDate(s) ==
    LET f == Fields(s)
    IN  /\ Len(f) = 3
        /\ Len(f[1]) = 4 /\ Len(f[2]) = 2 /\ Len(f[3]) = 2
        /\ AllDigits(f[1]) /\ AllDigits(f[2]) /\ AllDigits(f[3])
        /\ IntOf(f[1]) >= 1
        /\ IntOf(f[2]) \in 1..12
        /\ IntOf(f[3]) \in 1..DaysInMonth(IntOf(f[1]), IntOf(f[2]))

\* the same with the padding optional: a month or day of one digit, or a
\* day of a blank and one digit
LooseDate(s) ==
    LET f == Fields(s)
    IN  /\ Len(f) = 3
        /\ Len(f[1]) = 4 /\ AllDigits(f[1]) /\ IntOf(f[1]) >= 1
        /\ Len(f[2]) \in {1, 2} /\ AllDigits(f[2]) /\ IntOf(f[2]) \in 1..12
        /\ \/ Len(f[3]) \in {1, 2} /\ AllDigits(f[3])
           \/ Len(f[3]) = 2 /\ f[3][1] = " " /\ f[3][2] \in Digits
        /\ IntOf(f[3]) \in 1..DaysInMonth(IntOf(f[1]), IntOf(f[2]))

\* C13 as claimed: a call on a catalog with an entry whose date is not a
\* valid YYYY-MM-DD date raises and returns no hashes.
C13_MalformedDateFails ==
    (filter_ret # NotCalled
        /\ \E i \in 1..Len(deck_table) : ~StrictDate(deck_table[i].savedate)) =>
        filter_ret = [kind |-> "raised", value |-> <<>>]

\* C13 as amended: a call on a catalog with an entry whose date is not a
\* calendar day written year-month-day (padding optional) raises and returns
\* no hashes, whatever the price of that entry and whatever the limit; a
\* catalog of dates that are such days, padded or not, does not raise.
C13_UnparsableDateFails ==
    filter_ret # NotCalled =>
        IF \E i \in 1..Len(deck_table) : ~LooseDate(deck_table[i].savedate)
        THEN filter_ret = [kind |-> "raised", value |-> <<>>]
        ELSE filter_ret.kind = "returned"

\* a call that raised on an entry the price range and the limit 0 would
\* both have left out, listed behind an entry with a good date
C13_Witness ==
    /\ filter_ret.kind = "raised"
    /\ recent = 0
    /\ Len(deck_table) >= 2
    /\ LooseDate(deck_table[1].savedate)
    /\ ~LooseDate(deck_table[2].savedate)
    /\ ~InRange(2)

----------------------------------------------------------------------------
(* Claims about fetch_edhrec_build_id *)

\* C14: once fetch_edhrec_build_id has succeeded, the stored token never
\* changes, and every later call returns it at once: no homepage request is
\* issued, the EDHREC rate limiter is not acquired, and the caller gets the
\* stored token.
C14_TokenIsFinal ==
    [][Truthy(build_id) =>
          /\ build_id' = build_id
          /\ tok_requests' = tok_requests
          /\ tok_grants' = tok_grants
          /\ tok_pc' = "idle"
          /\ tok_calls' # tok_calls => tok_ret' = Returned(build_id)]_vars

\* after failed attempts one succeeded, and a later call returned the token
C14_Witness ==
    /\ Truthy(build_id)
    /\ tok_pc = "idle"
    /\ tok_requests = 2
    /\ tok_calls = 4
    /\ tok_ret = Returned(build_id)

Occurs(s, sub) ==
    \E p \in 1..(Len(s) - Len(sub) + 1) : SubSeq(s, p, p + Len(sub) - 1) = sub

\* the body is /_next/static/<id>/_buildManifest.js with an id of under 5
\* characters
ShortIdBody(text) ==
    LET id == SubSeq(text, Len(static_marker) + 1, Len(text) - Len(marker) - 1)
    IN  /\ Len(id) < 5
        /\ \A p \in DOMAIN id : id[p] # "/"
        /\ text = static_marker \o id \o <<"/">> \o marker

BadHomepage(r) ==
    \/ r.status_code # 200
    \/ ~Occurs(r.text, marker)
    \/ ~Occurs(r.text, static_marker)
    \/ ShortIdBody(r.text)

\* C15: a call whose homepage answer has a status other than success, a body
\* without the filename marker or without the path-prefix marker, or an
\* extracted id of fewer than 5 characters, fails and leaves the token unset;
\* while the token is unset every call made so far has failed and has issued
\* its own homepage request.
C15_FailuresLeaveTokenUnset ==
    /\ (tok_pc = "idle" /\ tok_requests > 0 /\ BadHomepage(tok_response))
          => (tok_ret = Raised /\ build_id = None)
    /\ (tok_pc = "idle" /\ build_id = None)
          => /\ tok_requests = tok_calls
             /\ tok_calls > 0 => tok_ret = Raised

\* the call after a failed call asked again and got a body with a short id
C15_Witness ==
    /\ tok_pc = "idle"
    /\ tok_calls = 2
    /\ tok_requests = 2
    /\ tok_response.text = HomepageShortId
    /\ tok_ret = Raised
    /\ build_id = None

----------------------------------------------------------------------------
(* Claims about the triples and the start of a batch *)

\* C16: in every triple yielded for a fetch that failed, the result is a
\* failed marker that carries the deck key of that fetch, so that the
\* consumer can tell which submitted key the failure belongs to.
C16_FailureCarriesKey ==
    \A k \in 1..Len(yields) :
       Failed(yield_of[k]) =>
          /\ yields[k].deck.tag = "failed"
          /\ yields[k].deck.v = deck_hashes[yield_of[k]]

\* two different keys both failed; their triples differ in the count only
C16_Witness ==
    /\ gen_pc = "exhausted"
    /\ Len(deck_hashes) = 2
    /\ deck_hashes[1] # deck_hashes[2]
    /\ \A i \in Futures : Failed(i)
    /\ yield_of = <<2, 1>>
    /\ yields = <<Triple(1, 2, None), Triple(2, 2, None)>>

\* C17: with an empty key sequence no step of fetch_decks_with_progress
\* yields a triple, creates the pool, runs a fetch or issues a request, and
\* none changes the token, the deck cache, the metadata cache or its file,
\* or takes a grant from either rate limiter.
C17_EmptyBatchIsInert ==
    [][deck_hashes = <<>> =>
          /\ yields' = <<>>
          /\ gen_pc' # "running"
          /\ homepage_by' = {}
          /\ build_id' = build_id
          /\ deck_cache' = deck_cache
          /\ scryfall_cache' = scryfall_cache
          /\ scryfall_file' = scryfall_file
          /\ edhrec_elapsed' >= edhrec_elapsed
          /\ scryfall_elapsed' >= scryfall_elapsed
          /\ edhrec_min_gap' = edhrec_min_gap]_vars

\* the generator of an empty batch was consumed in a process that has a
\* token and a deck file
C17_Witness ==
    /\ deck_hashes = <<>>
    /\ gen_pc = "exhausted"
    /\ total = 0
    /\ yields = <<>>
    /\ Truthy(build_id)
    /\ \E d \in DeckIds : deck_cache[d] # Missing

\* the homepage request of future i was answered and gave a token
ResolvedBy(i) == i \in homepage_by /\ ~(pc[i] = "done" /\ n_requests[i] = 1)

\* C20: in a batch at most one worker issues a homepage request that
\* resolves the token; the others use the token it stored.
C20_OneHomepageRequest ==
    Cardinality({i \in Futures : ResolvedBy(i)}) <= 1

\* two workers each requested the homepage, then each fetched its deck
C20_Witness ==
    /\ Len(deck_hashes) = 2
    /\ homepage_by = {1, 2}
    /\ \A i \in Futures : outcome[i] = "fetched" /\ n_requests[i] = 2

----------------------------------------------------------------------------
(* Claims about format_commander_name *)

IsAlnum(c) == c \in Letters \cup Digits

\* the canonical form: characters other than alphanumerics and whitespace
\* removed, lower case, a hyphen for every whitespace character
Canonical(s) ==
    LET kept == SelectSeq(s, LAMBDA c : IsAlnum(c) \/ IsSpace(c))
    IN  [i \in 1..Len(kept) |-> IF IsSpace(kept[i]) THEN "-"
                                ELSE Lower(kept)[i]]

\* C18: format_commander_name returns the canonical form of the name.
C18_ReturnsCanonical ==
    formatted_name.done => formatted_name.value = Canonical(commander_name)

\* a name with an underscore and a tab came back with both still in it
C18_Witness ==
    /\ formatted_name.done
    /\ commander_name = <<"K", "_", "\t">>
    /\ formatted_name.value = <<"k", "_", "\t">>

----------------------------------------------------------------------------
(* Claims about concurrent metadata reads *)

\* C19: whatever the interleaving of the readers, the metadata request for a
\* name is made at most once.
C19_OneFetchPerName ==
    \A c \in CardNames : n_fetches[c] <= 1

\* two readers of the same legacy entry have both fetched and stored it
C19_Witness ==
    \E c \in CardNames :
       /\ scryfall_cache0[c] = Legacy("Artifact")
       /\ n_fetches[c] = 2
       /\ \A w \in Workers : w_pc[w] = "done" /\ w_call[w].card_name = c

----------------------------------------------------------------------------
(* Claims about the deck cache *)

\* a deck file changes only in a step of save_deck_to_cache, taken by a fetch
\* of that deck id that received a success response holding a deck
WrittenOnSuccess ==
    \A d \in DeckIds :
       deck_cache'[d] # deck_cache[d] =>
          \E i \in Futures :
             /\ deck_hashes[i] = d
             /\ pc[i] \in {"save", "dump"}
             /\ pc'[i] # pc[i]
             /\ n_requests[i] >= 1
             /\ served[i].tag \in {"list", "None"}

\* C21: a fetch_deck_by_hash that ends in failure returns None without
\* raising and leaves the deck cache as it was, and a deck file changes only
\* in a fetch of that deck id that received a success response holding the
\* deck.
C21_FailureReturnsAndKeepsCache ==
    [][/\ \A i \in Futures :
             (outcome[i] # "failed" /\ outcome'[i] = "failed") =>
                /\ result'[i] = Returned(None)
                /\ deck_cache' = deck_cache
       /\ WrittenOnSuccess]_vars

\* with the token already stored, the deck request of a fetch was answered
\* with a body that is not JSON: the fetch raised, the deck has no file
C21_Witness ==
    \E i \in Futures :
       /\ result[i] = Raised
       /\ i \notin homepage_by
       /\ n_requests[i] = 1
       /\ deck_cache[deck_hashes[i]] = Missing

----------------------------------------------------------------------------
(* Claims about the two ways of populating a metadata entry *)

\* C22: the record a read stores from a success response is the record
\* either method makes of that response: whichever of get_card_type and
\* get_card_metadata fetched, the entry is what both would have stored, the
\* image of the first face included when the card has no image_uris.
C22_SameRecordEitherWay ==
    (ret.fetched /\ answered[ret.card_name] = 200) =>
       \E r \in ScryfallResponses :
          /\ r.status_code = 200
          /\ scryfall_cache[ret.card_name] = fetch_scryfall_metadata(r)
          /\ scryfall_cache[ret.card_name] = metadata_of_response(r)

\* get_card_type stored a two-faced card: the entry has no image
C22_Witness ==
    /\ call_pc = "idle"
    /\ ret.fetched
    /\ ret.op = "get_card_type"
    /\ answered[ret.card_name] = 200
    /\ scryfall_cache[ret.card_name] = Meta("Creature", NoneStr, "scryfall/delver")

----------------------------------------------------------------------------
(* Claims about the text taken as the build id *)

\* 1-based positions at which sub occurs in s
OccursAt(s, sub) ==
    {p \in 1..(Len(s) - Len(sub) + 1) : SubSeq(s, p, p + Len(sub) - 1) = sub}

\* the text between the end of the last "/_next/static/" before the first
\* "_buildManifest.js" and the next "/", or the filename marker when no "/"
\* comes first
TokenOf(text) ==
    LET m == CHOOSE p \in OccursAt(text, marker) :
                \A q \in OccursAt(text, marker) : p <= q
        before == {p \in OccursAt(text, static_marker) :
                      p + Len(static_marker) <= m}
        s == CHOOSE p \in before : \A q \in before : p >= q
        b == s + Len(static_marker)
        slashes == {q \in b..(m - 1) : text[q] = "/"}
        e == IF slashes = {} THEN m
             ELSE CHOOSE q \in slashes : \A x \in slashes : q <= x
    IN  SubSeq(text, b, e - 1)

\* C23: the token fetch_edhrec_build_id stores is exactly the text between
\* the path-prefix marker and the next "/", none of its characters dropped,
\* also when no "/" stands between that marker and the filename marker.
C23_TokenIsTextBetween ==
    Truthy(build_id) => build_id = PyStr(TokenOf(tok_response.text))

\* a homepage with no "/" before the filename marker gave a token that is
\* one character short
C23_Witness ==
    /\ tok_pc = "idle"
    /\ tok_response.text = static_marker \o <<"a", "a", "a", "a", "a", "a">> \o marker
    /\ tok_ret = Returned(PyStr(<<"a", "a", "a", "a", "a">>))
    /\ build_id = PyStr(<<"a", "a", "a", "a", "a">>)

----------------------------------------------------------------------------
(* Claims about the catalog handed to filter_deck_hashes *)

\* C25: a call of filter_deck_hashes, whether it returns or fails on a date,
\* leaves the catalog as it was: same entries, same fields, same values, same
\* order.
C25_CatalogUnchanged ==
    [][filter_ret' # filter_ret => deck_table' = deck_table]_vars

\* the call failed on the date of the second entry: the first entry has
\* gained a savedate_dt field, the second has not
C25_Witness ==
    /\ filter_ret.kind = "raised"
    /\ Len(deck_table) >= 2
    /\ deck_table[1].savedate_dt.set
    /\ ~deck_table[2].savedate_dt.set

----------------------------------------------------------------------------
(* Claims about the order of acquisitions and requests *)

\* metadata requests and Scryfall grants of the sequential caller
ScryfallRequests == n_fetches["Sol Ring"] + n_fetches["Delver of Secrets"]
ScryfallGrants == n_acquired - n_acquired_edhrec

\* grants and requests alternate, the grant first
Alternate(grants, requests) == requests <= grants /\ grants <= requests + 1

\* C24: for every caller and for each service, its requests and its
\* acquisitions of that service's rate limiter alternate, the acquisition
\* first: the homepage and deck requests of each pool thread with its EDHREC
\* grants, the deck index requests of the calling thread with its EDHREC
\* grants, its metadata requests with its Scryfall grants; and the calling
\* thread never holds two grants at once.
C24_RequestsFollowGrants ==
    /\ \A i \in Futures : Alternate(n_grants[i], n_requests[i])
    /\ Alternate(n_acquired_edhrec, n_table_requests)
    /\ Alternate(ScryfallGrants, ScryfallRequests)
    /\ Alternate(n_acquired, n_table_requests + ScryfallRequests)

\* a pool thread has requested the homepage and its deck, and the calling
\* thread the deck index and a card
C24_Witness ==
    /\ \E i \in homepage_by : n_requests[i] = 2 /\ n_grants[i] = 2
    /\ n_table_requests >= 1
    /\ ScryfallRequests >= 1
    /\ call_pc = "idle"

----------------------------------------------------------------------------
(* Claims about termination of a batch *)

\* every future has run to its end and the generator has handed over a
\* triple for each and has ended
BatchOver ==
    /\ gen_pc = "exhausted"
    /\ \A i \in Futures : pc[i] = "done" /\ sleep_left[i] = 0
    /\ Len(yields) = Len(deck_hashes)
    /\ yields # <<>> => yields[Len(yields)].completed = Len(deck_hashes)

\* C26: under fair scheduling, with every request answered, every batch
\* comes to its end: every submitted fetch finishes, none is left waiting at
\* the rate limiter or for a pool thread, and the consumer receives the last
\* triple.
C26_BatchTerminates == <>BatchOver

\* a cold batch of two is over: both threads went through the rate limiter,
\* both requested the homepage and their deck
C26_Witness ==
    /\ BatchOver
    /\ Len(deck_hashes) = 2
    /\ homepage_by = {1, 2}
    /\ \A i \in Futures : n_grants[i] = 2
    /\ edhrec_min_gap = 0

====
